---- MODULE Spec2Model ----
(***************************************************************************)
(* Model of the VS Code Mutagen plugin: the conflict-resolution engine of  *)
(* CommandManager, the session snapshot of SessionsTreeDataProvider and    *)
(* the command de-duplication of MutagenService, against an external       *)
(* synchronization engine.                                                 *)
(*                                                                         *)
(* The extension host runs one logical thread: a handler runs until it     *)
(* awaits a process, a file operation or a dialog, and its continuation is *)
(* one atomic step.  Every action below is such a continuation.            *)
(***************************************************************************)
EXTENDS Integers, Sequences, FiniteSets, TLC

VARIABLES
    engine,                     \* the external engine: per identifier, alive and its conflicts
    created,                    \* identifiers the engine has ever handed out
    remoteProtocol,             \* protocol of the sessions' remote endpoint
    sessions,                   \* SessionsTreeDataProvider.sessions (retained snapshot)
    isLoading,                  \* SessionsTreeDataProvider.isLoading
    lastError,                  \* SessionsTreeDataProvider.lastError
    runningCommands,            \* MutagenService.runningCommands
    handledConflictsBySession,  \* CommandManager.handledConflictsBySession
    cmd,                        \* the user command in flight and its locals
    pollPc,                     \* the auto-refresh callback
    bgPc,                       \* a list request of the restore / auto-resume flows
    report,                     \* the message the last command showed
    applied,                    \* history: the reported conflict was applied by an accept
    steps,                      \* engine updates, commands and background lists so far
    pathIn, pathOut,            \* path resolution: input and result
    fs, fsPc, fsJob,            \* direction application on the two file trees
    provider, loaded,           \* the session store with its list order, and its last load
    sigIn, sigOut,              \* signatures: the conflict arrays and what they give
    persisted, clock, storeOp,  \* the profiles in globalState, Date.now(), the last operation
    daemon, listing, saved,     \* restore: the engine's sessions, the list command, the profile
    maxRetries, restore,        \* restore: the configured attempts, the flows
    workspaceFolders,           \* closing: the folders of the window
    restoredSessionIds,         \* closing: the sessions the extension has restored
    restoredProfilesByWorkspace, \* closing: the restored profiles of each folder
    terminateOnClose,           \* closing: mutagen.terminateRestoredSessionsOnClose
    mirrors, lastIds,           \* closing: the engine's sessions, lastSessionIdentifier by profile
    closePc, issued,            \* closing: the handler's position, the commands it has issued
    workspaceRates, monitoring, \* status bar: the rate state of the session, its monitor
    lastStats, transferRate,    \* status bar: the global baseline, the global rate shown
    rateClock, rateOp,          \* status bar: Date.now(), the last event and what it carried
    execKeys, requests,         \* execute: runningCommands, the callers' promises
    processes, spawned,         \* execute: the engine processes, their number so far
    mutating,                   \* the flows that change the profile store
    application,                \* one application of a direction
    resuming,                   \* auto-resume of the sessions of a folder
    matchIn, matchOut,          \* endpoint match: the session and profile, the result
    editing,                    \* editSessionConfig: its position, the engine, the profiles
    statusBar                   \* status bar: enabled, its monitors, the monitor processes

vars == <<engine, created, remoteProtocol, sessions, isLoading, lastError,
          runningCommands, handledConflictsBySession, cmd, pollPc, bgPc,
          report, applied, steps, pathIn, pathOut, fs, fsPc, fsJob,
          provider, loaded, sigIn, sigOut, persisted, clock, storeOp,
          daemon, listing, saved, maxRetries, restore,
          workspaceFolders, restoredSessionIds, restoredProfilesByWorkspace,
          terminateOnClose, mirrors, lastIds, closePc, issued,
          workspaceRates, monitoring, lastStats, transferRate, rateClock, rateOp,
          execKeys, requests, processes, spawned, mutating,
          application, resuming, matchIn, matchOut, editing,
          statusBar>>

mainVars == <<engine, created, remoteProtocol, sessions, isLoading, lastError,
              runningCommands, handledConflictsBySession, cmd, pollPc, bgPc,
              report, applied, steps>>
pathVars == <<pathIn, pathOut>>
fsVars == <<fs, fsPc, fsJob>>
loadVars == <<provider, loaded>>
sigVars == <<sigIn, sigOut>>
storeVars == <<persisted, clock, storeOp>>
restoreVars == <<daemon, listing, saved, maxRetries, restore>>
closeVars == <<workspaceFolders, restoredSessionIds, restoredProfilesByWorkspace,
               terminateOnClose, mirrors, lastIds, closePc, issued>>
rateVars == <<workspaceRates, monitoring, lastStats, transferRate, rateClock, rateOp>>
execVars == <<execKeys, requests, processes, spawned>>
matchVars == <<matchIn, matchOut>>
lastVars == <<matchVars, editing, statusBar>>
moreVars == <<rateVars, execVars, mutating, application, resuming, lastVars>>
laterVars == <<loadVars, sigVars, storeVars, restoreVars, closeVars, moreVars>>

----------------------------------------------------------------------------
(* Bounds and universes *)

\* engine updates, user commands and background list requests explored in
\* one behaviour
MaxEvents == 4

Sessions == {"s1", "s2"}
Roots == {"a", "b"}
Directions == {"local", "remote"}
Protocols == {"local", "ssh", "docker"}

----------------------------------------------------------------------------
(* Sequences *)

RECURSIVE Insert(_, _)
Insert(x, s) ==
    IF s = <<>> THEN <<x>>
    ELSE IF x <= Head(s) THEN <<x>> \o s
    ELSE <<Head(s)>> \o Insert(x, Tail(s))

\* the changes taken in the order given
serializeChangesInOrder(s) == s

RECURSIVE serializeChanges(_)
serializeChanges(s) == IF s = <<>> THEN <<>> ELSE Insert(Head(s), serializeChanges(Tail(s)))

Orderings(S) ==
    {q \in [1..Cardinality(S) -> S] : \A i, j \in 1..Cardinality(S) : q[i] = q[j] => i = j}

\* the change lists the engine reports: a change record is named by the rank
\* of its serialization `path|old|new`, and the engine lists them in its order
ChangeLists == {<<1>>, <<2, 1>>}

----------------------------------------------------------------------------
(* Conflicts and signatures *)

NoConflict == [root |-> "none", alphaChanges |-> <<>>, betaChanges |-> <<>>]

ConflictsAt(r) ==
    {[root |-> r, alphaChanges |-> a, betaChanges |-> <<1>>] : a \in ChangeLists}

buildConflictSignature(conflict) ==
    <<conflict.root, serializeChanges(conflict.alphaChanges), serializeChanges(conflict.betaChanges)>>

NoConflicts == [r \in Roots |-> NoConflict]

\* the conflicts of a session as the list the engine prints, in any order
ConflictLists(cs) ==
    LET present == {r \in Roots : cs[r] # NoConflict}
    IN  {[i \in 1..Cardinality(present) |-> cs[q[i]]] : q \in Orderings(present)}

----------------------------------------------------------------------------
(* The session list and the retained snapshot *)

NoSession == [present |-> FALSE, conflicts |-> NoConflicts]
EmptyList == [s \in Sessions |-> NoSession]

\* `mutagen sync list`: the sessions the engine holds
EngineList ==
    [s \in Sessions |->
        IF engine[s].alive THEN [present |-> TRUE, conflicts |-> engine[s].conflicts]
        ELSE NoSession]

getConflictFingerprint(session) ==
    {buildConflictSignature(session.conflicts[r]) :
        r \in {x \in Roots : session.conflicts[x] # NoConflict}}

sessionChanged(oldSession, newSession) ==
    getConflictFingerprint(oldSession) # getConflictFingerprint(newSession)

\* variant: only the number of sessions is compared
detectChangesByCount(newSessions) ==
    Cardinality({s \in Sessions : newSessions[s].present})
      # Cardinality({s \in Sessions : sessions[s].present})

detectChanges(newSessions) ==
    \/ Cardinality({s \in Sessions : newSessions[s].present})
         # Cardinality({s \in Sessions : sessions[s].present})
    \/ \E s \in Sessions :
         /\ newSessions[s].present
         /\ \/ ~sessions[s].present
            \/ sessionChanged(sessions[s], newSessions[s])

\* the snapshot loadSessions retains for a list result
LoadResult(newSessions) == IF detectChanges(newSessions) THEN newSessions ELSE sessions

----------------------------------------------------------------------------
(* Handled-conflict records *)

NoRecord == [direction |-> "none", signature |-> <<>>]
NoRecords == [r \in Roots |-> NoRecord]

clearHandledConflicts(handled, sid) == [handled EXCEPT ![sid] = NoRecords]

\* variant: the record is stored only in a map the session already has
markConflictHandledExisting(handled, sid, conflict, direction) ==
    IF handled[sid] = NoRecords THEN handled
    ELSE [handled EXCEPT ![sid][conflict.root] =
            [direction |-> direction, signature |-> buildConflictSignature(conflict)]]

markConflictHandled(handled, sid, conflict, direction) ==
    [handled EXCEPT ![sid][conflict.root] =
        [direction |-> direction, signature |-> buildConflictSignature(conflict)]]

\* variant: a record at the root excludes the conflict whatever its signature
isHandledByRoot(record, conflict) == record # NoRecord

\* the test of splitHandledConflicts: `record && record.signature === signature`
\* variant: only a record of the direction local matches
recordMatchesLocalOnly(record, signature) ==
    record.signature = signature /\ record.direction = "local"

\* `record.signature === signature`: the direction of the record is not read
recordMatches(record, signature) == record.signature = signature

isHandled(record, conflict) ==
    record # NoRecord /\ recordMatches(record, buildConflictSignature(conflict))

RECURSIVE SelectPending(_, _)
SelectPending(records, conflicts) ==
    IF conflicts = <<>> THEN <<>>
    ELSE LET conflict == Head(conflicts)
         IN  IF isHandled(records[conflict.root], conflict)
             THEN SelectPending(records, Tail(conflicts))
             ELSE <<conflict>> \o SelectPending(records, Tail(conflicts))

\* variant: every conflict with a record at its root is counted
RECURSIVE CountExcludedByRoot(_, _)
CountExcludedByRoot(records, conflicts) ==
    IF conflicts = <<>> THEN 0
    ELSE (IF records[Head(conflicts).root] # NoRecord THEN 1 ELSE 0)
         + CountExcludedByRoot(records, Tail(conflicts))

\* `excludedCount += 1` in the loop of splitHandledConflicts
RECURSIVE CountExcluded(_, _)
CountExcluded(records, conflicts) ==
    IF conflicts = <<>> THEN 0
    ELSE (IF isHandled(records[Head(conflicts).root], Head(conflicts)) THEN 1 ELSE 0)
         + CountExcluded(records, Tail(conflicts))

splitHandledConflicts(handled, sid, conflicts) ==
    IF \A r \in Roots : handled[sid][r] = NoRecord
    THEN [pending |-> conflicts, excludedCount |-> 0]
    ELSE [pending |-> SelectPending(handled[sid], conflicts),
          excludedCount |-> CountExcluded(handled[sid], conflicts)]

pruneHandledConflictRecords(handled, snapshot) ==
    [s \in Sessions |->
        IF ~snapshot[s].present \/ snapshot[s].conflicts = NoConflicts
        THEN NoRecords
        ELSE [r \in Roots |->
                IF /\ handled[s][r] # NoRecord
                   /\ snapshot[s].conflicts[r] # NoConflict
                   /\ buildConflictSignature(snapshot[s].conflicts[r]) = handled[s][r].signature
                THEN handled[s][r]
                ELSE NoRecord]]

RECURSIVE FirstWhere(_, _, _)
FirstWhere(conflicts, root, signature) ==
    IF conflicts = <<>> THEN NoConflict
    ELSE IF /\ Head(conflicts).root = root
            /\ (signature = <<>> \/ buildConflictSignature(Head(conflicts)) = signature)
         THEN Head(conflicts)
         ELSE FirstWhere(Tail(conflicts), root, signature)

\* variant: only a conflict with the signature of the reference is found
findConflictInSessionExact(conflicts, referenceConflict) ==
    FirstWhere(conflicts, referenceConflict.root,
               buildConflictSignature(referenceConflict))

findConflictInSession(conflicts, referenceConflict) ==
    LET exact == FirstWhere(conflicts, referenceConflict.root,
                            buildConflictSignature(referenceConflict))
    IN  IF exact # NoConflict THEN exact
        ELSE FirstWhere(conflicts, referenceConflict.root, <<>>)

----------------------------------------------------------------------------
(* Direction application, seen from the batch: whether it succeeded and     *)
(* whether a copy or delete was issued on either side                       *)

\* variant: a container endpoint completes without doing anything
applyConflictDirectionSilent(protocol) ==
    IF protocol \in {"local", "ssh"}
    THEN {[ok |-> TRUE, fileOps |-> TRUE],
          [ok |-> FALSE, fileOps |-> TRUE],
          [ok |-> FALSE, fileOps |-> FALSE]}
    ELSE {[ok |-> TRUE, fileOps |-> FALSE]}

applyConflictDirection(protocol) ==
    IF protocol \in {"local", "ssh"}
    THEN {[ok |-> TRUE, fileOps |-> TRUE],
          [ok |-> FALSE, fileOps |-> TRUE],
          [ok |-> FALSE, fileOps |-> FALSE]}
    ELSE {[ok |-> FALSE, fileOps |-> FALSE]}

----------------------------------------------------------------------------
(* Commands *)

IdleCmd ==
    [op |-> "none", pc |-> "idle", sid |-> "none", direction |-> "none",
     item |-> NoConflict, conflicts |-> <<>>, pending |-> <<>>, excludedCount |-> 0,
     idx |-> 0, successCount |-> 0, failed |-> <<>>, attempted |-> <<>>,
     touched |-> <<>>, appliedBefore |-> {}, resetCalls |-> 0, flushCalls |-> 0,
     resetOk |-> FALSE, converged |-> FALSE, note |-> "none"]

\* variant: a failed item does not prevent the convergence step
allSucceededAnyFailure(attemptedCount, failedCount) == attemptedCount > 0

allSucceeded(attemptedCount, failedCount) == attemptedCount > 0 /\ failedCount = 0

\* variant: the first failure ends the loop
batchFinishedOnFailure(c) == c.idx >= Len(c.pending) \/ c.failed # <<>>

\* the for-of loop over exclusion.pending has run out of items
batchFinished(c) == c.idx >= Len(c.pending)

NoReport == [op |-> "none", kind |-> "none", note |-> "none"]

\* the message a command ends with
Message(c, kind, note) == [op |-> c.op, kind |-> kind, note |-> note]

RootsOf(q) == [i \in DOMAIN q |-> q[i].root]

\* the conflicts the engine reported for s are gone
Forget(s) == [applied EXCEPT ![s] = [r \in Roots |-> FALSE]]

\* an accept applied `conflict`: history, if the engine reports that conflict
Remember(s, conflict) ==
    IF /\ engine[s].alive
       /\ engine[s].conflicts[conflict.root] # NoConflict
       /\ buildConflictSignature(engine[s].conflicts[conflict.root])
            = buildConflictSignature(conflict)
    THEN [applied EXCEPT ![s][conflict.root] = TRUE]
    ELSE applied

Off == "off"

LoadOff == provider = Off /\ loaded = Off
SigOff == sigIn = Off /\ sigOut = Off
StoreOff == persisted = Off /\ clock = Off /\ storeOp = Off
RestoreOff ==
    /\ daemon = Off /\ listing = Off /\ saved = Off /\ maxRetries = Off /\ restore = Off
CloseOff ==
    /\ workspaceFolders = Off /\ restoredSessionIds = Off
    /\ restoredProfilesByWorkspace = Off /\ terminateOnClose = Off
    /\ mirrors = Off /\ lastIds = Off /\ closePc = Off /\ issued = Off
RateOff ==
    /\ workspaceRates = Off /\ monitoring = Off /\ lastStats = Off
    /\ transferRate = Off /\ rateClock = Off /\ rateOp = Off
ExecOff == execKeys = Off /\ requests = Off /\ processes = Off /\ spawned = Off
MatchOff == matchIn = Off /\ matchOut = Off
LastOff == MatchOff /\ editing = Off /\ statusBar = Off
MoreOff ==
    /\ RateOff /\ ExecOff /\ mutating = Off /\ application = Off /\ resuming = Off
    /\ LastOff
LaterOff == LoadOff /\ SigOff /\ StoreOff /\ RestoreOff /\ CloseOff /\ MoreOff

Init ==
    /\ remoteProtocol \in {"ssh", "docker"}
    /\ engine = [s \in Sessions |->
                    [alive |-> (s = "s1"), conflicts |-> NoConflicts]]
    /\ created = {"s1"}
    /\ sessions = EmptyList
    /\ isLoading = FALSE
    /\ lastError = "null"
    /\ runningCommands = {}
    /\ handledConflictsBySession = [s \in Sessions |-> NoRecords]
    /\ cmd = IdleCmd
    /\ pollPc = "idle"
    /\ bgPc = "idle"
    /\ report = NoReport
    /\ applied = [s \in Sessions |-> [r \in Roots |-> FALSE]]
    /\ steps = 0
    /\ pathIn = Off /\ pathOut = Off
    /\ fs = Off /\ fsPc = Off /\ fsJob = Off
    /\ LaterOff

(* The engine changes what it reports *)

EngineReport(s, r, c) ==
    /\ steps < MaxEvents
    /\ steps' = steps + 1
    /\ engine[s].alive
    /\ c # engine[s].conflicts[r]
    /\ engine' = [engine EXCEPT ![s].conflicts[r] = c]
    /\ applied' = [applied EXCEPT ![s][r] =
                     /\ @
                     /\ engine[s].conflicts[r] # NoConflict
                     /\ buildConflictSignature(c)
                          = buildConflictSignature(engine[s].conflicts[r])]
    /\ UNCHANGED <<created, remoteProtocol, sessions, isLoading, lastError,
                   runningCommands, handledConflictsBySession, cmd, pollPc, bgPc,
                   report, pathVars, fsVars, laterVars>>

EngineRetract(s, r) ==
    /\ steps < MaxEvents
    /\ steps' = steps + 1
    /\ engine[s].alive
    /\ engine[s].conflicts[r] # NoConflict
    /\ engine' = [engine EXCEPT ![s].conflicts[r] = NoConflict]
    /\ applied' = [applied EXCEPT ![s][r] = FALSE]
    /\ UNCHANGED <<created, remoteProtocol, sessions, isLoading, lastError,
                   runningCommands, handledConflictsBySession, cmd, pollPc, bgPc,
                   report, pathVars, fsVars, laterVars>>

(* SessionsTreeDataProvider.loadSessions under the auto-refresh timer *)

PollStart ==
    /\ pollPc = "idle"
    /\ ~isLoading
    /\ isLoading' = TRUE
    /\ lastError' = "null"
    /\ IF "list" \in runningCommands
       THEN pollPc' = "dup" /\ UNCHANGED runningCommands
       ELSE pollPc' = "list" /\ runningCommands' = runningCommands \cup {"list"}
    /\ UNCHANGED <<engine, created, remoteProtocol, sessions,
                   handledConflictsBySession, cmd, bgPc, report, applied,
                   steps, pathVars, fsVars, laterVars>>

PollListed(ok) ==
    /\ pollPc = "list"
    /\ runningCommands' = runningCommands \ {"list"}
    /\ IF ok
       THEN sessions' = LoadResult(EngineList) /\ UNCHANGED lastError
       ELSE lastError' = "error" /\ UNCHANGED sessions
    /\ isLoading' = FALSE
    /\ pollPc' = "idle"
    /\ UNCHANGED <<engine, created, remoteProtocol, handledConflictsBySession,
                   cmd, bgPc, report, applied, steps, pathVars, fsVars, laterVars>>

PollDeduplicated ==
    /\ pollPc = "dup"
    /\ sessions' = LoadResult(EmptyList)
    /\ isLoading' = FALSE
    /\ pollPc' = "idle"
    /\ UNCHANGED <<engine, created, remoteProtocol, lastError, runningCommands,
                   handledConflictsBySession, cmd, bgPc, report, applied,
                   steps, pathVars, fsVars, laterVars>>

(* MutagenService.listSessions called by the restore and auto-resume flows *)

BgListStart ==
    /\ bgPc = "idle"
    /\ "list" \notin runningCommands
    /\ steps < MaxEvents
    /\ steps' = steps + 1
    /\ bgPc' = "list"
    /\ runningCommands' = runningCommands \cup {"list"}
    /\ UNCHANGED <<engine, created, remoteProtocol, sessions, isLoading, lastError,
                   handledConflictsBySession, cmd, pollPc, report, applied,
                   pathVars, fsVars, laterVars>>

BgListed ==
    /\ bgPc = "list"
    /\ runningCommands' = runningCommands \ {"list"}
    /\ bgPc' = "idle"
    /\ UNCHANGED <<engine, created, remoteProtocol, sessions, isLoading, lastError,
                   handledConflictsBySession, cmd, pollPc, report, applied,
                   steps, pathVars, fsVars, laterVars>>

(* CommandManager.refresh: the synchronous part up to the list request *)

\* variant: a load that does not look at the flag
refreshUnguarded(c) ==
    /\ isLoading' = TRUE
    /\ lastError' = "null"
    /\ IF "list" \in runningCommands
       THEN cmd' = [c EXCEPT !.pc = "rf_dup"] /\ UNCHANGED runningCommands
       ELSE /\ cmd' = [c EXCEPT !.pc = "rf_list"]
            /\ runningCommands' = runningCommands \cup {"list"}

refresh(c) ==
    IF isLoading
    THEN /\ cmd' = [c EXCEPT !.pc = "rf_skip"]
         /\ UNCHANGED <<isLoading, lastError, runningCommands>>
    ELSE /\ isLoading' = TRUE
         /\ lastError' = "null"
         /\ IF "list" \in runningCommands
            THEN cmd' = [c EXCEPT !.pc = "rf_dup"] /\ UNCHANGED runningCommands
            ELSE /\ cmd' = [c EXCEPT !.pc = "rf_list"]
                 /\ runningCommands' = runningCommands \cup {"list"}

FinalMessage(c) ==
    Message(c,
            IF c.op = "refresh" THEN "none"
            ELSE IF c.op = "acceptAll" /\ c.failed # <<>> THEN "warning"
            ELSE "info",
            c.note)

\* loadSessions returned at once: another load is in flight
RefreshSkipped ==
    /\ cmd.pc = "rf_skip"
    /\ handledConflictsBySession' =
           pruneHandledConflictRecords(handledConflictsBySession, sessions)
    /\ report' = FinalMessage(cmd)
    /\ cmd' = IdleCmd
    /\ UNCHANGED <<engine, created, remoteProtocol, sessions, isLoading, lastError,
                   runningCommands, pollPc, bgPc, applied, steps, pathVars, fsVars, laterVars>>

\* execute returned '' at once: a list request is in flight
RefreshDeduplicated ==
    /\ cmd.pc = "rf_dup"
    /\ sessions' = LoadResult(EmptyList)
    /\ isLoading' = FALSE
    /\ handledConflictsBySession' =
           pruneHandledConflictRecords(handledConflictsBySession, sessions')
    /\ report' = FinalMessage(cmd)
    /\ cmd' = IdleCmd
    /\ UNCHANGED <<engine, created, remoteProtocol, lastError, runningCommands,
                   pollPc, bgPc, applied, steps, pathVars, fsVars, laterVars>>

RefreshListed(ok) ==
    /\ cmd.pc = "rf_list"
    /\ runningCommands' = runningCommands \ {"list"}
    /\ IF ok
       THEN sessions' = LoadResult(EngineList) /\ UNCHANGED lastError
       ELSE lastError' = "error" /\ UNCHANGED sessions
    /\ isLoading' = FALSE
    /\ handledConflictsBySession' =
           pruneHandledConflictRecords(handledConflictsBySession, sessions')
    /\ report' = FinalMessage(cmd)
    /\ cmd' = IdleCmd
    /\ UNCHANGED <<engine, created, remoteProtocol, pollPc, bgPc, applied,
                   steps, pathVars, fsVars, laterVars>>

RefreshCommand ==
    /\ steps < MaxEvents
    /\ steps' = steps + 1
    /\ cmd.pc = "idle"
    /\ refresh([IdleCmd EXCEPT !.op = "refresh"])
    /\ report' = NoReport
    /\ UNCHANGED <<engine, created, remoteProtocol, sessions,
                   handledConflictsBySession, pollPc, bgPc, applied,
                   pathVars, fsVars, laterVars>>

(* The commands of the tree: the item comes from the retained snapshot *)

StartCommand(op, s, r, d) ==
    /\ steps < MaxEvents
    /\ steps' = steps + 1
    /\ cmd.pc = "idle"
    /\ sessions[s].present
    /\ cmd' = [IdleCmd EXCEPT !.op = op, !.sid = s, !.direction = d,
                              !.item = IF r = "none" THEN NoConflict
                                       ELSE sessions[s].conflicts[r],
                              !.pc = IF op \in {"accept", "acceptAll"} THEN "get"
                                     ELSE "confirm"]
    /\ report' = NoReport
    /\ UNCHANGED <<engine, created, remoteProtocol, sessions, isLoading, lastError,
                   runningCommands, handledConflictsBySession, pollPc, bgPc,
                   applied, pathVars, fsVars, laterVars>>

acceptConflict(s, r, d) ==
    /\ sessions[s].conflicts[r] # NoConflict
    /\ StartCommand("accept", s, r, d)

acceptAllConflicts(s, d) ==
    /\ sessions[s].conflicts # NoConflicts
    /\ StartCommand("acceptAll", s, "none", d)

terminateSession(s) == StartCommand("terminate", s, "none", "none")

resetSession(s) == StartCommand("reset", s, "none", "none")

editSessionConfig(s) ==
    /\ created # Sessions
    /\ StartCommand("edit", s, "none", "none")

\* the modal dialog of terminate, reset, edit and accept-all is answered
Confirm(yes) ==
    /\ cmd.pc = "confirm"
    /\ cmd' = IF ~yes THEN IdleCmd
              ELSE IF cmd.op = "acceptAll" THEN [cmd EXCEPT !.pc = "apply", !.idx = 1]
              ELSE IF cmd.op = "edit" THEN [cmd EXCEPT !.pc = "terminate"]
              ELSE [cmd EXCEPT !.pc = "exec"]
    /\ UNCHANGED <<engine, created, remoteProtocol, sessions, isLoading, lastError,
                   runningCommands, handledConflictsBySession, pollPc, bgPc,
                   report, applied, steps, pathVars, fsVars, laterVars>>

Fail(note) ==
    /\ report' = Message(cmd, "error", note)
    /\ cmd' = IdleCmd

\* acceptConflict after getSession
AcceptFetched(ok) ==
    /\ cmd.op = "accept" /\ cmd.pc = "get"
    /\ IF ~(ok /\ engine[cmd.sid].alive)
       THEN /\ Fail("session-not-found")
            /\ UNCHANGED <<isLoading, lastError, runningCommands>>
       ELSE \E conflicts \in ConflictLists(engine[cmd.sid].conflicts) :
              LET latestConflict == findConflictInSession(conflicts, cmd.item)
              IN  IF latestConflict = NoConflict
                  THEN /\ refresh([cmd EXCEPT !.note = "already-resolved"])
                       /\ UNCHANGED report
                  ELSE /\ cmd' = [cmd EXCEPT !.pc = "apply", !.idx = 1,
                                             !.conflicts = conflicts,
                                             !.pending = <<latestConflict>>]
                       /\ UNCHANGED <<report, isLoading, lastError, runningCommands>>
    /\ UNCHANGED <<engine, created, remoteProtocol, sessions,
                   handledConflictsBySession, pollPc, bgPc, applied,
                   steps, pathVars, fsVars, laterVars>>

\* acceptConflict after applyConflictDirection
AcceptApplied(outcome) ==
    /\ cmd.op = "accept" /\ cmd.pc = "apply"
    /\ LET latestConflict == cmd.pending[1]
           c1 == [cmd EXCEPT !.attempted = <<latestConflict.root>>,
                             !.touched = IF outcome.fileOps
                                         THEN <<latestConflict.root>> ELSE <<>>]
       IN  IF outcome.ok
           THEN /\ handledConflictsBySession' =
                      markConflictHandled(handledConflictsBySession, cmd.sid,
                                          latestConflict, cmd.direction)
                /\ applied' = Remember(cmd.sid, latestConflict)
                /\ refresh([c1 EXCEPT !.successCount = 1, !.note = "accepted"])
                /\ UNCHANGED report
           ELSE /\ report' = Message(c1, "error", "failed-to-accept")
                /\ cmd' = IdleCmd
                /\ UNCHANGED <<handledConflictsBySession, applied, isLoading,
                               lastError, runningCommands>>
    /\ UNCHANGED <<engine, created, remoteProtocol, sessions, pollPc, bgPc,
                   steps, pathVars, fsVars, laterVars>>

\* acceptAllConflicts after getSession
AcceptAllFetched(ok) ==
    /\ cmd.op = "acceptAll" /\ cmd.pc = "get"
    /\ IF ~(ok /\ engine[cmd.sid].alive)
       THEN /\ Fail("session-not-found")
            /\ UNCHANGED <<handledConflictsBySession, isLoading, lastError,
                           runningCommands>>
       ELSE \E conflicts \in ConflictLists(engine[cmd.sid].conflicts) :
              LET exclusion == splitHandledConflicts(handledConflictsBySession,
                                                     cmd.sid, conflicts)
                  c1 == [cmd EXCEPT !.conflicts = conflicts,
                                    !.pending = exclusion.pending,
                                    !.excludedCount = exclusion.excludedCount,
                                    !.appliedBefore =
                                        {r \in Roots : applied[cmd.sid][r]}]
              IN  IF conflicts = <<>>
                  THEN /\ handledConflictsBySession' =
                             clearHandledConflicts(handledConflictsBySession, cmd.sid)
                       /\ refresh([c1 EXCEPT !.note = "no-conflicts"])
                       /\ UNCHANGED report
                  ELSE IF exclusion.pending = <<>>
                  THEN /\ report' = Message(c1, "info", "no-pending")
                       /\ cmd' = IdleCmd
                       /\ UNCHANGED <<handledConflictsBySession, isLoading,
                                      lastError, runningCommands>>
                  ELSE /\ cmd' = [c1 EXCEPT !.pc = "confirm"]
                       /\ UNCHANGED <<report, handledConflictsBySession, isLoading,
                                      lastError, runningCommands>>
    /\ UNCHANGED <<engine, created, remoteProtocol, sessions, pollPc, bgPc,
                   applied, steps, pathVars, fsVars, laterVars>>

\* acceptAllConflicts after applyConflictDirection of pending[idx]
AcceptAllApplied(outcome) ==
    /\ cmd.op = "acceptAll" /\ cmd.pc = "apply"
    /\ LET conflict == cmd.pending[cmd.idx]
           c1 == [cmd EXCEPT !.attempted = Append(@, conflict.root),
                             !.touched = IF outcome.fileOps
                                         THEN Append(@, conflict.root) ELSE @,
                             !.successCount = IF outcome.ok THEN @ + 1 ELSE @,
                             !.failed = IF outcome.ok THEN @
                                        ELSE Append(@, conflict.root)]
       IN  /\ IF outcome.ok
              THEN /\ handledConflictsBySession' =
                         markConflictHandled(handledConflictsBySession, cmd.sid,
                                             conflict, cmd.direction)
                   /\ applied' = Remember(cmd.sid, conflict)
              ELSE UNCHANGED <<handledConflictsBySession, applied>>
           /\ IF ~batchFinished(c1)
              THEN /\ cmd' = [c1 EXCEPT !.idx = @ + 1]
                   /\ UNCHANGED <<isLoading, lastError, runningCommands>>
              ELSE IF allSucceeded(Len(cmd.pending), Len(c1.failed))
              THEN /\ cmd' = [c1 EXCEPT !.pc = "reset", !.resetCalls = @ + 1]
                   /\ UNCHANGED <<isLoading, lastError, runningCommands>>
              ELSE refresh([c1 EXCEPT !.note = "failed-items"])
    /\ UNCHANGED <<engine, created, remoteProtocol, sessions, pollPc, bgPc,
                   report, steps, pathVars, fsVars, laterVars>>

\* acceptAllConflicts after the resetSession of the convergence step
AcceptAllReset(ok) ==
    /\ cmd.op = "acceptAll" /\ cmd.pc = "reset"
    /\ IF ok /\ engine[cmd.sid].alive
       THEN /\ engine' = [engine EXCEPT ![cmd.sid].conflicts = NoConflicts]
            /\ applied' = Forget(cmd.sid)
            /\ cmd' = [cmd EXCEPT !.pc = "flush", !.resetOk = TRUE,
                                  !.flushCalls = @ + 1]
            /\ UNCHANGED <<isLoading, lastError, runningCommands>>
       ELSE /\ refresh([cmd EXCEPT !.note = "reset-flush-failed"])
            /\ UNCHANGED <<engine, applied>>
    /\ UNCHANGED <<created, remoteProtocol, sessions, handledConflictsBySession,
                   pollPc, bgPc, report, steps, pathVars, fsVars, laterVars>>

\* acceptAllConflicts after the flushSession of the convergence step
AcceptAllFlushed(ok) ==
    /\ cmd.op = "acceptAll" /\ cmd.pc = "flush"
    /\ IF ok /\ engine[cmd.sid].alive
       THEN /\ handledConflictsBySession' =
                  clearHandledConflicts(handledConflictsBySession, cmd.sid)
            /\ refresh([cmd EXCEPT !.converged = TRUE,
                                   !.note = "reset-flush-completed"])
       ELSE /\ refresh([cmd EXCEPT !.note = "reset-flush-failed"])
            /\ UNCHANGED handledConflictsBySession
    /\ UNCHANGED <<engine, created, remoteProtocol, sessions, pollPc, bgPc,
                   report, applied, steps, pathVars, fsVars, laterVars>>

\* terminateSession / resetSession after the engine call
Executed(ok) ==
    /\ cmd.op \in {"terminate", "reset"} /\ cmd.pc = "exec"
    /\ IF ok /\ engine[cmd.sid].alive
       THEN /\ engine' = IF cmd.op = "terminate"
                         THEN [engine EXCEPT ![cmd.sid] =
                                 [alive |-> FALSE, conflicts |-> NoConflicts]]
                         ELSE [engine EXCEPT ![cmd.sid].conflicts = NoConflicts]
            /\ applied' = Forget(cmd.sid)
            /\ handledConflictsBySession' =
                  clearHandledConflicts(handledConflictsBySession, cmd.sid)
            /\ refresh([cmd EXCEPT !.note = "done"])
            /\ UNCHANGED report
       ELSE /\ Fail("engine-error")
            /\ UNCHANGED <<engine, applied, handledConflictsBySession, isLoading,
                           lastError, runningCommands>>
    /\ UNCHANGED <<created, remoteProtocol, sessions, pollPc, bgPc,
                   steps, pathVars, fsVars, laterVars>>

\* MutagenService.recreateSession after terminateSession
RecreateTerminated(ok) ==
    /\ cmd.op = "edit" /\ cmd.pc = "terminate"
    /\ IF ok /\ engine[cmd.sid].alive
       THEN /\ engine' = [engine EXCEPT ![cmd.sid] =
                            [alive |-> FALSE, conflicts |-> NoConflicts]]
            /\ applied' = Forget(cmd.sid)
            /\ cmd' = [cmd EXCEPT !.pc = "create"]
            /\ UNCHANGED report
       ELSE /\ Fail("engine-error")
            /\ UNCHANGED <<engine, applied>>
    /\ UNCHANGED <<created, remoteProtocol, sessions, isLoading, lastError,
                   runningCommands, handledConflictsBySession, pollPc, bgPc,
                   steps, pathVars, fsVars, laterVars>>

\* MutagenService.recreateSession after createSession
RecreateCreated(ok) ==
    /\ cmd.op = "edit" /\ cmd.pc = "create"
    /\ IF ok
       THEN \E n \in Sessions \ created :
              /\ engine' = [engine EXCEPT ![n] =
                              [alive |-> TRUE, conflicts |-> NoConflicts]]
              /\ created' = created \cup {n}
              /\ refresh([cmd EXCEPT !.note = "recreated"])
              /\ UNCHANGED report
       ELSE /\ Fail("engine-error")
            /\ UNCHANGED <<engine, created, isLoading, lastError, runningCommands>>
    /\ UNCHANGED <<remoteProtocol, sessions, handledConflictsBySession, pollPc,
                   bgPc, applied, steps, pathVars, fsVars, laterVars>>

Next ==
    \/ \E s \in Sessions, r \in Roots : \E c \in ConflictsAt(r) : EngineReport(s, r, c)
    \/ \E s \in Sessions, r \in Roots : EngineRetract(s, r)
    \/ PollStart
    \/ \E ok \in BOOLEAN : PollListed(ok)
    \/ PollDeduplicated
    \/ BgListStart
    \/ BgListed
    \/ RefreshCommand
    \/ RefreshSkipped
    \/ RefreshDeduplicated
    \/ \E ok \in BOOLEAN : RefreshListed(ok)
    \/ \E s \in Sessions, r \in Roots, d \in Directions : acceptConflict(s, r, d)
    \/ \E s \in Sessions, d \in Directions : acceptAllConflicts(s, d)
    \/ \E s \in Sessions : terminateSession(s)
    \/ \E s \in Sessions : resetSession(s)
    \/ \E s \in Sessions : editSessionConfig(s)
    \/ \E yes \in BOOLEAN : Confirm(yes)
    \/ \E ok \in BOOLEAN : AcceptFetched(ok)
    \/ \E outcome \in applyConflictDirection(remoteProtocol) : AcceptApplied(outcome)
    \/ \E ok \in BOOLEAN : AcceptAllFetched(ok)
    \/ \E outcome \in applyConflictDirection(remoteProtocol) : AcceptAllApplied(outcome)
    \/ \E ok \in BOOLEAN : AcceptAllReset(ok)
    \/ \E ok \in BOOLEAN : AcceptAllFlushed(ok)
    \/ \E ok \in BOOLEAN : Executed(ok)
    \/ \E ok \in BOOLEAN : RecreateTerminated(ok)
    \/ \E ok \in BOOLEAN : RecreateCreated(ok)

Spec == Init /\ [][Next]_vars

----------------------------------------------------------------------------
(* Path resolution: a conflict root against an endpoint root.  A string is  *)
(* a sequence of characters, a path the sequence of its segments below "/" *)

\* the longest conflict root explored
MaxRootLen == 5

Chars == {"/", "\\", ".", "a"}
ConflictRoots == UNION {[1..n -> Chars] : n \in 0..MaxRootLen}

\* the endpoint roots "/", "/a" and "/a/a"
EndpointRoots == {<<>>, << <<"a">> >>, << <<"a">>, <<"a">> >>}

replaceBackslashes(str) == [i \in DOMAIN str |-> IF str[i] = "\\" THEN "/" ELSE str[i]]

RECURSIVE split(_)
split(str) ==
    IF \A i \in DOMAIN str : str[i] # "/" THEN <<str>>
    ELSE LET k == CHOOSE i \in DOMAIN str :
                      str[i] = "/" /\ \A j \in 1..(i - 1) : str[j] # "/"
         IN  <<SubSeq(str, 1, k - 1)>> \o split(SubSeq(str, k + 1, Len(str)))

RECURSIVE filterSegments(_)
filterSegments(segments) ==
    IF segments = <<>> THEN <<>>
    ELSE IF Len(Head(segments)) > 0 /\ Head(segments) # <<".">>
         THEN <<Head(segments)>> \o filterSegments(Tail(segments))
         ELSE filterSegments(Tail(segments))

splitConflictRoot(conflictRoot) == filterSegments(split(replaceBackslashes(conflictRoot)))

\* path.resolve(basePath, ...segments) for segments without a separator
RECURSIVE resolve(_, _)
resolve(basePath, segments) ==
    IF segments = <<>> THEN basePath
    ELSE IF Head(segments) = <<>> \/ Head(segments) = <<".">>
         THEN resolve(basePath, Tail(segments))
    ELSE IF Head(segments) = <<".", ".">>
         THEN resolve(IF basePath = <<>> THEN <<>>
                      ELSE SubSeq(basePath, 1, Len(basePath) - 1),
                      Tail(segments))
    ELSE resolve(Append(basePath, Head(segments)), Tail(segments))

\* path.relative(from, to) of two resolved paths, as segments
relative(from, to) ==
    LET same == {k \in 0..Len(from) :
                    k <= Len(to) /\ \A i \in 1..k : from[i] = to[i]}
        k == CHOOSE x \in same : \A y \in same : y <= x
    IN  [i \in 1..(Len(from) - k) |-> <<".", ".">>] \o SubSeq(to, k + 1, Len(to))

RECURSIVE join(_)
join(segments) ==
    IF segments = <<>> THEN <<>>
    ELSE IF Len(segments) = 1 THEN segments[1]
    ELSE segments[1] \o <<"/">> \o join(Tail(segments))

startsWith(str, prefix) ==
    Len(str) >= Len(prefix) /\ SubSeq(str, 1, Len(prefix)) = prefix

isAbsolute(str) == Len(str) > 0 /\ str[1] = "/"

\* variant: the test for a leading ".." is dropped
isSubPathLoose(basePath, targetPath) ==
    LET rel == join(relative(basePath, targetPath))
    IN  rel = <<>> \/ ~isAbsolute(rel)

isSubPath(basePath, targetPath) ==
    LET rel == join(relative(basePath, targetPath))
    IN  rel = <<>> \/ (~startsWith(rel, <<".", ".">>) /\ ~isAbsolute(rel))

isSubPathPosix(basePath, targetPath) ==
    LET rel == join(relative(basePath, targetPath))
    IN  rel = <<>> \/ (~startsWith(rel, <<".", ".">>) /\ ~isAbsolute(rel))

Resolved(targetPath) == [ok |-> TRUE, error |-> "none", path |-> targetPath]
Thrown(error) == [ok |-> FALSE, error |-> error, path |-> <<>>]
Unresolved == Thrown("pending")

resolveLocalConflictPath(localRoot, conflictRoot) ==
    LET basePath == resolve(<<>>, localRoot)
        targetPath == resolve(basePath, splitConflictRoot(conflictRoot))
    IN  IF ~isSubPath(basePath, targetPath) THEN Thrown("escapes-local-root")
        ELSE Resolved(targetPath)

resolveRemoteConflictPath(remoteRoot, conflictRoot) ==
    LET basePath == resolve(<<>>, remoteRoot)
        targetPath == resolve(basePath, splitConflictRoot(conflictRoot))
    IN  IF ~isSubPathPosix(basePath, targetPath) THEN Thrown("escapes-remote-root")
        ELSE Resolved(targetPath)

resolveEndpointConflictPath(endpoint, conflictRoot) ==
    IF endpoint.protocol = "local"
    THEN resolveLocalConflictPath(endpoint.path, conflictRoot)
    ELSE resolveRemoteConflictPath(endpoint.path, conflictRoot)

MainOff ==
    /\ engine = Off /\ created = Off /\ remoteProtocol = Off /\ sessions = Off
    /\ isLoading = Off /\ lastError = Off /\ runningCommands = Off
    /\ handledConflictsBySession = Off /\ cmd = Off /\ pollPc = Off
    /\ bgPc = Off /\ report = Off /\ applied = Off /\ steps = Off

InitPath ==
    /\ MainOff
    /\ pathIn \in [protocol : Protocols, path : EndpointRoots,
                   conflictRoot : ConflictRoots]
    /\ pathOut = Unresolved
    /\ fs = Off /\ fsPc = Off /\ fsJob = Off
    /\ LaterOff

ResolveConflictPath ==
    /\ pathOut = Unresolved
    /\ pathOut' = resolveEndpointConflictPath(pathIn, pathIn.conflictRoot)
    /\ UNCHANGED <<pathIn, mainVars, fsVars, laterVars>>

NextPath == ResolveConflictPath

SpecPath == InitPath /\ [][NextPath]_vars

IsPrefix(a, b) == Len(a) <= Len(b) /\ SubSeq(b, 1, Len(a)) = a

\* C8: a resolved conflict path is the endpoint root or lies below it, and a
\* conflict root whose segments lead out of the endpoint root is refused
\* with the path-escape error.
PathStaysInRoot ==
    pathOut # Unresolved =>
        LET target == resolve(pathIn.path, splitConflictRoot(pathIn.conflictRoot))
        IN  /\ pathOut.ok => IsPrefix(pathIn.path, pathOut.path)
            /\ ~IsPrefix(pathIn.path, target) =>
                   /\ ~pathOut.ok
                   /\ pathOut.error \in {"escapes-local-root", "escapes-remote-root"}

\* the conflict root ..\.. against the endpoint root /a/a is refused
PathEscapeWitness ==
    /\ pathIn.path = << <<"a">>, <<"a">> >>
    /\ pathIn.conflictRoot = <<".", ".", "\\", ".", ".">>
    /\ pathOut = Thrown("escapes-local-root")

----------------------------------------------------------------------------
(* Direction application on the two file trees: what is at the conflict     *)
(* path on the local and on the remote side.  Nothing else writes the two   *)
(* paths while a direction is applied.                                      *)

Contents == {"x", "y"}
Missing == [kind |-> "missing", content |-> "none"]
PathStates == {Missing} \cup [kind : {"file", "directory"}, content : Contents]

\* a directory that holds the copy next to what was there
Mixed == [kind |-> "directory", content |-> "mixed"]

\* fs.cp / fs.copyFile / scp of `source` to a destination path
copyTo(source, destination) ==
    IF destination = Missing \/ (source.kind = "file" /\ destination.kind = "file")
    THEN source
    ELSE Mixed

\* variant: the remote side is the source for "local" and the local side otherwise
sourceSideSwapped(direction) == IF direction = "local" THEN "remote" ELSE "local"

\* applyConflictDirection: "local" copies local to remote, "remote" the reverse
sourceSide(direction) == IF direction = "local" THEN "local" ELSE "remote"

destinationSide(direction) == IF sourceSide(direction) = "local" THEN "remote" ELSE "local"

\* the destination is written over ssh
viaSsh(job) == job.protocol = "ssh" /\ destinationSide(job.direction) = "remote"

\* a write to one side; with both sides at the same path it is one path
WritePath(f, side, state, samePath) ==
    IF samePath THEN [local |-> state, remote |-> state]
    ELSE [f EXCEPT ![side] = state]

InitFs ==
    /\ MainOff
    /\ pathIn = Off /\ pathOut = Off
    /\ LaterOff
    /\ fs \in [local : PathStates, remote : PathStates]
    /\ fsPc = "begin"
    /\ \E protocol \in {"local", "ssh"}, direction \in Directions, samePath \in BOOLEAN :
          /\ samePath => (protocol = "local" /\ fs.local = fs.remote)
          /\ fsJob = [protocol |-> protocol, direction |-> direction,
                      samePath |-> samePath, run |-> 1, sourceState |-> "none",
                      start |-> fs, first |-> fs]

\* applyLocalToEndpoint / applyEndpointToLocal, and the same-path test of
\* copyOrDeleteLocalPath
FsBegin ==
    /\ fsPc = "begin"
    /\ fsPc' = IF fsJob.protocol = "local" /\ fsJob.samePath THEN "done" ELSE "probe"
    /\ UNCHANGED <<fs, fsJob, mainVars, pathVars, laterVars>>

\* getLocalPathState / getRemotePathState of the source
FsProbed(ok) ==
    /\ fsPc = "probe"
    /\ IF ok
       THEN /\ fsJob' = [fsJob EXCEPT !.sourceState = fs[sourceSide(fsJob.direction)].kind]
            /\ fsPc' = "rm"
       ELSE /\ fsPc' = "failed"
            /\ UNCHANGED fsJob
    /\ UNCHANGED <<fs, mainVars, pathVars, laterVars>>

\* fs.rm of the destination, or the ssh command that removes it
FsRemoved(ok) ==
    /\ fsPc = "rm"
    /\ IF ok
       THEN /\ fs' = WritePath(fs, destinationSide(fsJob.direction), Missing,
                               fsJob.samePath)
            /\ fsPc' = IF fsJob.sourceState = "missing" THEN "done"
                       ELSE IF viaSsh(fsJob) THEN "copy"
                       ELSE "mkdir"
       ELSE /\ fsPc' = "failed"
            /\ UNCHANGED fs
    /\ UNCHANGED <<fsJob, mainVars, pathVars, laterVars>>

\* fs.mkdir of the destination's parent
FsMkdir(ok) ==
    /\ fsPc = "mkdir"
    /\ fsPc' = IF ok THEN "copy" ELSE "failed"
    /\ UNCHANGED <<fs, fsJob, mainVars, pathVars, laterVars>>

\* fs.cp, fs.copyFile or scp
FsCopied(ok) ==
    /\ fsPc = "copy"
    /\ IF ok
       THEN /\ fs' = WritePath(fs, destinationSide(fsJob.direction),
                               copyTo(fs[sourceSide(fsJob.direction)],
                                      fs[destinationSide(fsJob.direction)]),
                               fsJob.samePath)
            /\ fsPc' = "done"
       ELSE /\ fsPc' = "failed"
            /\ UNCHANGED fs
    /\ UNCHANGED <<fsJob, mainVars, pathVars, laterVars>>

\* the same accept is applied once more
FsAgain ==
    /\ fsPc = "done"
    /\ fsJob.run = 1
    /\ fsJob' = [fsJob EXCEPT !.run = 2, !.sourceState = "none", !.first = fs]
    /\ fsPc' = "begin"
    /\ UNCHANGED <<fs, mainVars, pathVars, laterVars>>

NextFs ==
    \/ FsBegin
    \/ \E ok \in BOOLEAN : FsProbed(ok)
    \/ \E ok \in BOOLEAN : FsRemoved(ok)
    \/ \E ok \in BOOLEAN : FsMkdir(ok)
    \/ \E ok \in BOOLEAN : FsCopied(ok)
    \/ FsAgain

SpecFs == InitFs /\ [][NextFs]_vars

\* C10: when applying direction d on a local or ssh session has succeeded,
\* the path on the other side is in the state of the chosen side, the chosen
\* side is as it was, nothing has changed if both sides are the same path,
\* and a second successful application leaves both sides as the first did.
AcceptMakesSidesEqual ==
    fsPc = "done" =>
        LET chosen == fsJob.direction
            other == IF fsJob.direction = "local" THEN "remote" ELSE "local"
        IN  /\ fs[other] = fs[chosen]
            /\ fs[chosen] = fsJob.start[chosen]
            /\ fsJob.samePath => fs = fsJob.start
            /\ fsJob.run = 2 => fs = fsJob.first

\* remote was accepted twice over ssh where local held a file and remote a
\* directory
AcceptTwiceWitness ==
    /\ fsPc = "done"
    /\ fsJob.run = 2
    /\ fsJob.protocol = "ssh"
    /\ fsJob.direction = "remote"
    /\ fsJob.start.local.kind = "file"
    /\ fsJob.start.remote.kind = "directory"
    /\ fs.local = fsJob.start.remote

----------------------------------------------------------------------------
(* The session store on the list as the engine prints it: an array of      *)
(* session records in the engine's order, and the map by identifier        *)

\* `undefined`, where a number may stand
Undefined == -1

\* a ?? b
Coalesce(a, b) == IF a # Undefined THEN a ELSE b

\* the rank of a root among the roots, as their strings compare
RootRank(root) == IF root = "a" THEN 1 ELSE 2

\* the strict order of two strings, a string being the sequence of the
\* ranks of its parts
RECURSIVE LexLess(_, _)
LexLess(a, b) ==
    IF a = <<>> THEN b # <<>>
    ELSE IF b = <<>> THEN FALSE
    ELSE IF Head(a) # Head(b) THEN Head(a) < Head(b)
    ELSE LexLess(Tail(a), Tail(b))

RECURSIVE InsertEntry(_, _)
InsertEntry(x, s) ==
    IF s = <<>> THEN <<x>>
    ELSE IF ~LexLess(Head(s), x) THEN <<x>> \o s
    ELSE <<Head(s)>> \o InsertEntry(x, Tail(s))

\* Array.prototype.sort on strings
RECURSIVE sortEntries(_)
sortEntries(s) ==
    IF s = <<>> THEN <<>> ELSE InsertEntry(Head(s), sortEntries(Tail(s)))

\* Array.prototype.join('|'): the bar is below every part of an entry
RECURSIVE joinEntries(_)
joinEntries(s) ==
    IF s = <<>> THEN <<>>
    ELSE IF Len(s) = 1 THEN Head(s)
    ELSE Head(s) \o <<-1>> \o joinEntries(Tail(s))

\* the string one conflict contributes to the fingerprint: the root, the
\* sorted alpha changes and the sorted beta changes
conflictEntry(conflict) ==
    <<RootRank(conflict.root)>> \o serializeChanges(conflict.alphaChanges)
        \o <<0>> \o serializeChanges(conflict.betaChanges)

getConflictFingerprintOf(session) ==
    joinEntries(sortEntries([i \in DOMAIN session.conflicts |->
                                conflictEntry(session.conflicts[i])]))

stagingReceived(session) ==
    Coalesce(session.stagingProgress,
             Coalesce(session.alpha.stagingProgress,
                      Coalesce(session.beta.stagingProgress, 0)))

sessionChangedOf(oldSession, newSession) ==
    \/ oldSession.status # newSession.status
    \/ oldSession.paused # newSession.paused
    \/ oldSession.successfulCycles # newSession.successfulCycles
    \/ oldSession.lastError # newSession.lastError
    \/ oldSession.alpha.connected # newSession.alpha.connected
    \/ oldSession.beta.connected # newSession.beta.connected
    \/ getConflictFingerprintOf(oldSession) # getConflictFingerprintOf(newSession)
    \/ stagingReceived(oldSession) # stagingReceived(newSession)

\* Map.set for each session of the array in turn: the last one of an
\* identifier stays
updateSessionMap(list) ==
    [id \in {list[i].identifier : i \in DOMAIN list} |->
        list[CHOOSE i \in DOMAIN list :
                /\ list[i].identifier = id
                /\ \A j \in DOMAIN list : list[j].identifier = id => j <= i]]

\* a detection that compares the two arrays place by place
detectChangesByIndex(p, newSessions) ==
    \/ Len(newSessions) # Len(p.sessions)
    \/ \E i \in DOMAIN newSessions :
         \/ newSessions[i].identifier # p.sessions[i].identifier
         \/ sessionChangedOf(p.sessions[i], newSessions[i])

detectChangesOf(p, newSessions) ==
    \/ Len(newSessions) # Len(p.sessions)
    \/ \E i \in DOMAIN newSessions :
         \/ newSessions[i].identifier \notin DOMAIN p.sessionMap
         \/ sessionChangedOf(p.sessionMap[newSessions[i].identifier], newSessions[i])

\* a load that retains every list it is given
retainListAlways(p, newSessions, hasChanges) ==
    [provider |-> [p EXCEPT !.sessions = newSessions,
                            !.sessionMap = updateSessionMap(newSessions),
                            !.isLoading = FALSE],
     fired |-> TRUE]

\* loadSessions after the list has arrived: the branch on hasChanges and the
\* finally block
retainList(p, newSessions, hasChanges) ==
    IF hasChanges
    THEN [provider |-> [p EXCEPT !.sessions = newSessions,
                                 !.sessionMap = updateSessionMap(newSessions),
                                 !.isLoading = FALSE],
          fired |-> TRUE]
    ELSE [provider |-> [p EXCEPT !.isLoading = FALSE], fired |-> FALSE]

\* the sessions the engine lists
ListedConflicts ==
    LET a12 == [root |-> "a", alphaChanges |-> <<1, 2>>, betaChanges |-> <<1>>]
        a21 == [root |-> "a", alphaChanges |-> <<2, 1>>, betaChanges |-> <<1>>]
        a1 == [root |-> "a", alphaChanges |-> <<1>>, betaChanges |-> <<1>>]
        b1 == [root |-> "b", alphaChanges |-> <<1>>, betaChanges |-> <<1>>]
    IN  {<<>>, <<a12>>, <<a21>>, <<a1>>, <<a12, b1>>, <<b1, a12>>}

BaseSession(id) ==
    [identifier |-> id, name |-> "name", status |-> "watching", paused |-> FALSE,
     successfulCycles |-> 1, lastError |-> "null",
     alpha |-> [connected |-> TRUE, stagingProgress |-> Undefined],
     beta |-> [connected |-> TRUE, stagingProgress |-> Undefined],
     stagingProgress |-> Undefined, conflicts |-> <<>>]

ListedSessions(id) ==
    LET b == BaseSession(id)
    IN  IF id = "s2" THEN {b, [b EXCEPT !.paused = TRUE]}
        ELSE {b,
              [b EXCEPT !.name = "renamed"],
              [b EXCEPT !.status = "scanning"],
              [b EXCEPT !.paused = TRUE],
              [b EXCEPT !.successfulCycles = 2],
              [b EXCEPT !.lastError = "error"],
              [b EXCEPT !.alpha.connected = FALSE],
              [b EXCEPT !.beta.connected = FALSE],
              [b EXCEPT !.stagingProgress = 0],
              [b EXCEPT !.stagingProgress = 1],
              [b EXCEPT !.alpha.stagingProgress = 1],
              [b EXCEPT !.beta.stagingProgress = 1]}
             \cup {[b EXCEPT !.conflicts = cs] : cs \in ListedConflicts}

SessionArrays ==
    {<<>>}
    \cup {<<x>> : x \in ListedSessions("s1") \cup ListedSessions("s2")}
    \cup {<<x, y>> : x \in ListedSessions("s1"), y \in ListedSessions("s2")}
    \cup {<<y, x>> : x \in ListedSessions("s1"), y \in ListedSessions("s2")}

NotLoaded ==
    [outcome |-> "none", newSessions |-> <<>>, hasChanges |-> FALSE, fired |-> FALSE,
     previous |-> "none"]

\* the rest of the model stands still
LoadFrame == <<mainVars, pathVars, fsVars, sigVars, storeVars, restoreVars, closeVars, moreVars>>

InitLoad ==
    /\ MainOff
    /\ pathIn = Off /\ pathOut = Off
    /\ fs = Off /\ fsPc = Off /\ fsJob = Off
    /\ SigOff /\ StoreOff /\ RestoreOff /\ CloseOff /\ MoreOff
    /\ provider = [sessions |-> <<>>, sessionMap |-> updateSessionMap(<<>>),
                   isLoading |-> FALSE, lastError |-> "null"]
    /\ loaded = NotLoaded

\* loadSessions up to the list request
LoadStart ==
    /\ ~provider.isLoading
    /\ provider' = [provider EXCEPT !.isLoading = TRUE, !.lastError = "null"]
    /\ loaded' = [loaded EXCEPT !.outcome = "listing", !.previous = loaded.outcome]
    /\ UNCHANGED LoadFrame

\* loadSessions called while a load is in flight
LoadSkipped ==
    /\ provider.isLoading
    /\ loaded' = [loaded EXCEPT !.outcome = "skipped"]
    /\ UNCHANGED <<provider, LoadFrame>>

\* the list arrives
LoadListed(newSessions) ==
    /\ provider.isLoading
    /\ LET hasChanges == detectChangesOf(provider, newSessions)
           after == retainList(provider, newSessions, hasChanges)
       IN  /\ provider' = after.provider
           /\ loaded' = [outcome |-> "ok", previous |-> loaded.previous,
                         newSessions |-> newSessions,
                         hasChanges |-> hasChanges, fired |-> after.fired]
    /\ UNCHANGED LoadFrame

\* the list request throws
LoadFailed ==
    /\ provider.isLoading
    /\ provider' = [provider EXCEPT !.isLoading = FALSE, !.lastError = "error"]
    /\ loaded' = [loaded EXCEPT !.outcome = "error", !.hasChanges = FALSE,
                                !.fired = (provider.lastError # "error")]
    /\ UNCHANGED LoadFrame

NextLoad ==
    \/ LoadStart
    \/ LoadSkipped
    \/ \E newSessions \in SessionArrays : LoadListed(newSessions)
    \/ LoadFailed

SpecLoad == InitLoad /\ [][NextLoad]_vars

\* a load whose list arrived
LoadedStep == provider.isLoading /\ ~provider'.isLoading /\ loaded'.outcome = "ok"

\* the two arrays hold the same sessions
SameSessions(old, new) ==
    /\ Len(old) = Len(new)
    /\ {old[i] : i \in DOMAIN old} = {new[i] : i \in DOMAIN new}

\* what the store is to call a change of the list
Declared(old, new) ==
    \/ Len(new) # Len(old)
    \/ \E i \in DOMAIN new : \A j \in DOMAIN old : old[j].identifier # new[i].identifier
    \/ \E i \in DOMAIN new, j \in DOMAIN old :
         /\ old[j].identifier = new[i].identifier
         /\ \/ old[j].status # new[i].status
            \/ old[j].paused # new[i].paused
            \/ old[j].successfulCycles # new[i].successfulCycles
            \/ old[j].lastError # new[i].lastError
            \/ old[j].alpha.connected # new[i].alpha.connected
            \/ old[j].beta.connected # new[i].beta.connected
            \/ getConflictFingerprintOf(old[j]) # getConflictFingerprintOf(new[i])
            \/ stagingReceived(old[j]) # stagingReceived(new[i])

\* C11: a load reports a change exactly when the count of sessions differs
\* from the retained one, or a listed identifier is not in the retained
\* snapshot, or a pair of the same identifier differs in status, paused,
\* successfulCycles, lastError, alpha.connected, beta.connected, conflict
\* fingerprint or staging received bytes; the same sessions in another
\* array order are no change.
ChangeDetectedIff ==
    [][LoadedStep =>
         /\ loaded'.hasChanges <=> Declared(provider.sessions, loaded'.newSessions)
         /\ SameSessions(provider.sessions, loaded'.newSessions) => ~loaded'.hasChanges]_vars

\* two sessions are retained and the list then names them in the other
\* order, which was no change
ReorderedListWitness ==
    /\ loaded.outcome = "ok"
    /\ ~loaded.hasChanges
    /\ Len(provider.sessions) = 2
    /\ Len(loaded.newSessions) = 2
    /\ loaded.newSessions[1] = provider.sessions[2]
    /\ loaded.newSessions[2] = provider.sessions[1]

\* C12: a load whose list arrived and that declares no change leaves the
\* retained snapshot and the identifier map as they were and notifies no
\* listener; it replaces the snapshot or notifies only on a declared change.
NoChangeLoadIsFrame ==
    [][LoadedStep =>
         /\ ~loaded'.hasChanges =>
               /\ provider'.sessions = provider.sessions
               /\ provider'.sessionMap = provider.sessionMap
               /\ ~loaded'.fired
         /\ (provider'.sessions # provider.sessions \/ loaded'.fired) =>
               /\ loaded'.hasChanges
               /\ provider'.sessions = loaded'.newSessions]_vars

\* a list that differs from the retained one in a session's name only was
\* loaded: no change, no notification, and the retained list is still the
\* old one
NoChangeLoadWitness ==
    /\ loaded.outcome = "ok"
    /\ ~loaded.hasChanges
    /\ ~loaded.fired
    /\ Len(provider.sessions) = 1
    /\ Len(loaded.newSessions) = 1
    /\ loaded.newSessions[1].name # provider.sessions[1].name

----------------------------------------------------------------------------
(* Signatures and fingerprints as functions of the conflict arrays *)

\* change lists with repeated records, in several orders
SignedChanges == {<<1, 2>>, <<2, 1>>, <<1, 2, 1>>, <<2, 1, 1>>}

SignedConflicts ==
    [root : Roots, alphaChanges : SignedChanges, betaChanges : {<<1, 2>>, <<2, 1>>}]

ConflictArrays ==
    {<<c>> : c \in SignedConflicts} \cup {<<c, d>> : c, d \in SignedConflicts}

Unsigned == [done |-> FALSE, signatures |-> <<>>, fingerprint |-> <<>>]

\* the signature of every conflict of the array, and the array's fingerprint
Signed(conflicts) ==
    [done |-> TRUE,
     signatures |-> [i \in DOMAIN conflicts |-> buildConflictSignature(conflicts[i])],
     fingerprint |-> getConflictFingerprintOf([conflicts |-> conflicts])]

SigFrame == <<mainVars, pathVars, fsVars, loadVars, storeVars, restoreVars, closeVars, moreVars>>

InitSig ==
    /\ MainOff
    /\ pathIn = Off /\ pathOut = Off
    /\ fs = Off /\ fsPc = Off /\ fsJob = Off
    /\ LoadOff /\ StoreOff /\ RestoreOff /\ CloseOff /\ MoreOff
    /\ sigIn \in [left : ConflictArrays, right : ConflictArrays]
    /\ sigOut = [left |-> Unsigned, right |-> Unsigned]

SignConflicts ==
    /\ ~sigOut.left.done
    /\ sigOut' = [left |-> Signed(sigIn.left), right |-> Signed(sigIn.right)]
    /\ UNCHANGED <<sigIn, SigFrame>>

NextSig == SignConflicts

SpecSig == InitSig /\ [][NextSig]_vars

\* the records of a list, each with the number of times it occurs
CountsOf(s) ==
    [x \in {s[i] : i \in DOMAIN s} |-> Cardinality({i \in DOMAIN s : s[i] = x})]

\* C13: two conflicts with the same root and the same multisets of alpha
\* and of beta change records have the same signature, whatever the order of
\* their change lists; two conflict arrays that are permutations of each
\* other have the same fingerprint.
SignatureIgnoresOrder ==
    sigOut.left.done =>
        /\ \A i \in DOMAIN sigIn.left, j \in DOMAIN sigIn.right :
             ( /\ sigIn.left[i].root = sigIn.right[j].root
               /\ CountsOf(sigIn.left[i].alphaChanges) = CountsOf(sigIn.right[j].alphaChanges)
               /\ CountsOf(sigIn.left[i].betaChanges) = CountsOf(sigIn.right[j].betaChanges) )
             => sigOut.left.signatures[i] = sigOut.right.signatures[j]
        /\ CountsOf(sigIn.left) = CountsOf(sigIn.right)
             => sigOut.left.fingerprint = sigOut.right.fingerprint

\* an array of two conflicts at different roots and the same array reversed
\* with the alpha changes of its conflicts in another order
PermutedConflictsWitness ==
    /\ sigOut.left.done
    /\ Len(sigIn.left) = 2
    /\ Len(sigIn.right) = 2
    /\ sigIn.left[1].root # sigIn.left[2].root
    /\ sigIn.right[1] = sigIn.left[2]
    /\ sigIn.right[2].root = sigIn.left[1].root
    /\ sigIn.right[2].betaChanges = sigIn.left[1].betaChanges
    /\ sigIn.left[1].alphaChanges = <<1, 2, 1>>
    /\ sigIn.right[2].alphaChanges = <<2, 1, 1>>
    /\ sigOut.left.signatures[1] = sigOut.right.signatures[2]

----------------------------------------------------------------------------
(* ConnectionProfileService: the profiles persisted in globalState.  A     *)
(* string is the sequence of its characters.                               *)

RequiredFields == {"id", "name", "localPath", "remotePath", "workspaceFolder", "updatedAt"}

SyncModes == {"two-way-safe", "two-way-resolved", "one-way-safe", "one-way-replica"}

\* path.resolve of an absolute path
normalizePath(rawPath) == <<"/">> \o join(resolve(<<>>, split(rawPath)))

\* path.basename of a resolved path
basename(p) == LET segments == split(p) IN segments[Len(segments)]

RECURSIVE trimStart(_)
trimStart(s) == IF s # <<>> /\ Head(s) = " " THEN trimStart(Tail(s)) ELSE s

RECURSIVE trimEnd(_)
trimEnd(s) ==
    IF s # <<>> /\ s[Len(s)] = " " THEN trimEnd(SubSeq(s, 1, Len(s) - 1)) ELSE s

trim(s) == trimEnd(trimStart(s))

\* the Set of the trimmed, non-empty candidates, in insertion order
RECURSIVE dedupe(_, _)
dedupe(items, seen) ==
    IF items = <<>> THEN <<>>
    ELSE LET normalized == trim(Head(items))
         IN  IF normalized = <<>> \/ normalized \in seen
             THEN dedupe(Tail(items), seen)
             ELSE <<normalized>> \o dedupe(Tail(items), seen \cup {normalized})

normalizeIgnorePaths(isArray, value) == IF ~isArray THEN <<>> ELSE dedupe(value, {})

parseMode(mode) == IF mode \in SyncModes THEN mode ELSE "undefined"

getDeduplicationKey(workspaceFolder, localPath, remotePath) ==
    workspaceFolder \o <<":", ":">> \o localPath \o <<":", ":">> \o remotePath

\* the length of the slice of the base64url text that enters a profile id
IdSliceLength == 16

\* Date.now(), a dash, and the slice of the encoded triple: four characters
\* of base64url stand for three bytes of the text
createProfileId(now, workspaceFolder, localPath, remotePath) ==
    LET text == workspaceFolder \o <<"|">> \o localPath \o <<"|">> \o remotePath
        bytes == (IdSliceLength * 3) \div 4
    IN  <<ToString(now), "-">>
            \o SubSeq(text, 1, IF Len(text) < bytes THEN Len(text) ELSE bytes)

\* a record as JSON holds it: the type of each field, and its value where
\* the type is the expected one
toStored(profile) ==
    [kind |-> "object",
     types |-> [id |-> "string", name |-> "string", localPath |-> "string",
                remotePath |-> "string", workspaceFolder |-> "string",
                updatedAt |-> "string", ignorePaths |-> "array",
                lastSessionIdentifier |->
                    IF profile.lastSessionIdentifier = "undefined"
                    THEN "undefined" ELSE "string"],
     values |-> profile]

stringField(record, field) ==
    IF record.types[field] = "string" THEN record.values[field] ELSE <<>>

\* a parse that takes a record whatever its required fields are
parseProfileUnchecked(value) ==
    IF value.kind # "object" THEN <<>>
    ELSE << [id |-> stringField(value, "id"),
             name |-> stringField(value, "name"),
             localPath |-> normalizePath(stringField(value, "localPath")),
             remotePath |-> stringField(value, "remotePath"),
             mode |-> parseMode(value.values.mode),
             ignoreVcs |-> IF value.values.ignoreVcs \in {"true", "false"}
                           THEN value.values.ignoreVcs ELSE "undefined",
             ignorePaths |-> normalizeIgnorePaths(value.types.ignorePaths = "array",
                                                  value.values.ignorePaths),
             workspaceFolder |-> normalizePath(stringField(value, "workspaceFolder")),
             lastSessionIdentifier |->
                 IF value.types.lastSessionIdentifier = "string"
                 THEN value.values.lastSessionIdentifier ELSE "undefined",
             updatedAt |-> stringField(value, "updatedAt")] >>

\* parseProfile: the empty sequence is null
parseProfile(value) ==
    IF value.kind # "object" THEN <<>>
    ELSE IF \E field \in RequiredFields : stringField(value, field) = <<>> THEN <<>>
    ELSE << [id |-> stringField(value, "id"),
             name |-> stringField(value, "name"),
             localPath |-> normalizePath(stringField(value, "localPath")),
             remotePath |-> stringField(value, "remotePath"),
             mode |-> parseMode(value.values.mode),
             ignoreVcs |-> IF value.values.ignoreVcs \in {"true", "false"}
                           THEN value.values.ignoreVcs ELSE "undefined",
             ignorePaths |-> normalizeIgnorePaths(value.types.ignorePaths = "array",
                                                  value.values.ignorePaths),
             workspaceFolder |-> normalizePath(stringField(value, "workspaceFolder")),
             lastSessionIdentifier |->
                 IF value.types.lastSessionIdentifier = "string"
                 THEN value.values.lastSessionIdentifier ELSE "undefined",
             updatedAt |-> stringField(value, "updatedAt")] >>

\* sort((a, b) => b.updatedAt.localeCompare(a.updatedAt)), which is stable
RECURSIVE insertProfile(_, _)
insertProfile(x, s) ==
    IF s = <<>> THEN <<x>>
    ELSE IF ~LexLess(x.updatedAt, Head(s).updatedAt) THEN <<x>> \o s
    ELSE <<Head(s)>> \o insertProfile(x, Tail(s))

RECURSIVE sortProfiles(_)
sortProfiles(s) ==
    IF s = <<>> THEN <<>> ELSE insertProfile(Head(s), sortProfiles(Tail(s)))

RECURSIVE parseAll(_)
parseAll(items) ==
    IF items = <<>> THEN <<>> ELSE parseProfile(Head(items)) \o parseAll(Tail(items))

listProfiles(rawValue) ==
    IF rawValue.type # "array" THEN <<>> ELSE sortProfiles(parseAll(rawValue.items))

saveProfiles(profiles) ==
    [type |-> "array", items |-> [i \in DOMAIN profiles |-> toStored(profiles[i])]]

\* Array.prototype.find: the first profile of the key, as a sequence
RECURSIVE findByKey(_, _)
findByKey(profiles, profileKey) ==
    IF profiles = <<>> THEN <<>>
    ELSE IF getDeduplicationKey(Head(profiles).workspaceFolder, Head(profiles).localPath,
                                Head(profiles).remotePath) = profileKey
         THEN <<Head(profiles)>>
    ELSE findByKey(Tail(profiles), profileKey)

\* the profile an upsert builds from its input
upsertedProfile(profiles, input, now) ==
    LET localPath == normalizePath(input.localPath)
        workspaceFolder == normalizePath(input.workspaceFolder)
        existing == findByKey(profiles,
                        getDeduplicationKey(workspaceFolder, localPath, input.remotePath))
    IN  [id |-> IF existing # <<>> THEN existing[1].id
                ELSE createProfileId(now, workspaceFolder, localPath, input.remotePath),
         name |-> IF trim(input.name) # <<>> THEN trim(input.name) ELSE basename(localPath),
         localPath |-> localPath,
         remotePath |-> input.remotePath,
         mode |-> input.mode,
         ignoreVcs |-> input.ignoreVcs,
         ignorePaths |-> normalizeIgnorePaths(input.ignorePathsGiven, input.ignorePaths),
         workspaceFolder |-> workspaceFolder,
         lastSessionIdentifier |->
             IF input.lastSessionIdentifier # "undefined" THEN input.lastSessionIdentifier
             ELSE IF existing # <<>> THEN existing[1].lastSessionIdentifier
             ELSE "undefined",
         updatedAt |-> <<now>>]

\* an upsert that keeps every stored profile and adds its own
upsertProfileAppend(profiles, input, now) ==
    Append(profiles, upsertedProfile(profiles, input, now))

\* upsertProfile: the array it saves
upsertProfile(profiles, input, now) ==
    LET profile == upsertedProfile(profiles, input, now)
    IN  Append(SelectSeq(profiles, LAMBDA item : item.id # profile.id), profile)

\* updateLastSessionIdentifier: the array it saves, or the one it read
updateLastSessionIdentifier(profiles, profileId, sessionIdentifier, now) ==
    [i \in DOMAIN profiles |->
        IF profiles[i].id = profileId
              /\ \A j \in 1..(i - 1) : profiles[j].id # profileId
        THEN [profiles[i] EXCEPT !.lastSessionIdentifier = sessionIdentifier,
                                 !.updatedAt = <<now>>]
        ELSE profiles[i]]

removeProfile(profiles, profileId) ==
    SelectSeq(profiles, LAMBDA profile : profile.id # profileId)

\* the inputs of the upserts: a folder /w with the directories a and b, the
\* directory a given with a trailing separator, and two directories whose
\* names hold colons: /w/a::/w::/w/a under /w, and /w::/w/a opened as a folder
FolderW == <<"/", "w">>
DirectoryA == FolderW \o <<"/", "a">>
DirectoryB == FolderW \o <<"/", "b">>
ColonDirectory == DirectoryA \o <<":", ":">> \o FolderW \o <<":", ":">> \o DirectoryA
ColonFolder == FolderW \o <<":", ":">> \o DirectoryA

BaseInput ==
    [name |-> <<"n">>, localPath |-> DirectoryA, remotePath |-> <<"r">>,
     mode |-> "undefined", ignoreVcs |-> "undefined", ignorePathsGiven |-> FALSE,
     ignorePaths |-> <<>>, workspaceFolder |-> FolderW,
     lastSessionIdentifier |-> "undefined"]

UpsertInputs ==
    {BaseInput,
     [BaseInput EXCEPT !.name = <<"m">>, !.localPath = DirectoryA \o <<"/">>,
                       !.mode = "two-way-safe", !.ignoreVcs = "true",
                       !.ignorePathsGiven = TRUE,
                       !.ignorePaths = << <<"x">>, <<" ", "x">>, <<" ">> >>],
     [BaseInput EXCEPT !.name = <<" ">>, !.lastSessionIdentifier = "s1"],
     [BaseInput EXCEPT !.localPath = DirectoryB],
     [BaseInput EXCEPT !.localPath = ColonDirectory],
     [BaseInput EXCEPT !.name = <<"m">>, !.localPath = ColonFolder,
                       !.workspaceFolder = ColonFolder]}

\* operations on the store explored in one behaviour
MaxStoreOps == 3

NoStoreOp == [op |-> "none", input |-> BaseInput, id |-> <<>>, before |-> <<>>,
              result |-> <<>>, count |-> 0]

StoreFrame == <<mainVars, pathVars, fsVars, loadVars, sigVars, restoreVars, closeVars, moreVars>>

InitStore ==
    /\ MainOff
    /\ pathIn = Off /\ pathOut = Off
    /\ fs = Off /\ fsPc = Off /\ fsJob = Off
    /\ LoadOff /\ SigOff /\ RestoreOff /\ CloseOff /\ MoreOff
    /\ persisted = saveProfiles(<<>>)
    /\ clock = 1
    /\ storeOp = NoStoreOp

\* the ids an operation may name: those stored, and one that is not
KnownIds ==
    {listProfiles(persisted)[i].id : i \in DOMAIN listProfiles(persisted)} \cup {<<"0">>}

UpsertProfile(input, now) ==
    /\ storeOp.count < MaxStoreOps
    /\ clock' = now
    /\ LET profiles == listProfiles(persisted)
       IN  /\ persisted' = saveProfiles(upsertProfile(profiles, input, now))
           /\ storeOp' = [op |-> "upsert", input |-> input,
                          id |-> upsertedProfile(profiles, input, now).id,
                          before |-> profiles, result |-> <<>>,
                          count |-> storeOp.count + 1]
    /\ UNCHANGED StoreFrame

UpdateLastSessionIdentifier(profileId, sessionIdentifier, now) ==
    /\ storeOp.count < MaxStoreOps
    /\ clock' = now
    /\ LET profiles == listProfiles(persisted)
       IN  /\ IF \E i \in DOMAIN profiles : profiles[i].id = profileId
              THEN persisted' = saveProfiles(updateLastSessionIdentifier(
                                    profiles, profileId, sessionIdentifier, now))
              ELSE UNCHANGED persisted
           /\ storeOp' = [op |-> "update", input |-> BaseInput, id |-> profileId,
                          before |-> profiles, result |-> <<>>,
                          count |-> storeOp.count + 1]
    /\ UNCHANGED StoreFrame

RemoveProfile(profileId) ==
    /\ storeOp.count < MaxStoreOps
    /\ LET profiles == listProfiles(persisted)
           retained == removeProfile(profiles, profileId)
       IN  /\ IF Len(retained) = Len(profiles) THEN UNCHANGED persisted
              ELSE persisted' = saveProfiles(retained)
           /\ storeOp' = [op |-> "remove", input |-> BaseInput, id |-> profileId,
                          before |-> profiles, result |-> <<>>,
                          count |-> storeOp.count + 1]
    /\ UNCHANGED <<clock, StoreFrame>>

NextStore ==
    \/ \E input \in UpsertInputs, now \in {clock, clock + 1} : UpsertProfile(input, now)
    \/ \E profileId \in KnownIds, sessionIdentifier \in {"s1", "s2"},
          now \in {clock, clock + 1} :
            UpdateLastSessionIdentifier(profileId, sessionIdentifier, now)
    \/ \E profileId \in KnownIds : RemoveProfile(profileId)

SpecStore == InitStore /\ [][NextStore]_vars

\* the triple a profile is stored under
TripleOf(profile) == <<profile.workspaceFolder, profile.localPath, profile.remotePath>>

InputTriple(input) ==
    <<normalizePath(input.workspaceFolder), normalizePath(input.localPath), input.remotePath>>

\* C14: starting from the empty store, after any upserts, updates of the last
\* session identifier and removals no two stored profiles have the same
\* (workspaceFolder, localPath, remotePath), and after an upsert exactly one
\* stored profile has the triple of its input.
StoredKeysUnique ==
    LET profiles == listProfiles(persisted)
    IN  /\ \A i, j \in DOMAIN profiles :
             TripleOf(profiles[i]) = TripleOf(profiles[j]) => i = j
        /\ storeOp.op = "upsert" =>
             Cardinality({i \in DOMAIN profiles :
                             TripleOf(profiles[i]) = InputTriple(storeOp.input)}) = 1

\* the directory a was saved as "n" and then, given with a trailing
\* separator, as "m": one profile of that triple is stored, named "m"
UpsertTwiceWitness ==
    /\ storeOp.op = "upsert"
    /\ storeOp.input.name = <<"m">>
    /\ storeOp.input.localPath = DirectoryA \o <<"/">>
    /\ \E i \in DOMAIN storeOp.before :
          /\ TripleOf(storeOp.before[i]) = InputTriple(storeOp.input)
          /\ storeOp.before[i].name = <<"n">>
    /\ \E i \in DOMAIN listProfiles(persisted) :
          /\ TripleOf(listProfiles(persisted)[i]) = InputTriple(storeOp.input)
          /\ listProfiles(persisted)[i].name = <<"m">>

\* C15: an upsert whose triple is stored keeps the id of that profile and
\* its lastSessionIdentifier unless the input gives one, and leaves every
\* other profile as it was; an upsert whose triple is not stored adds one
\* profile and leaves every stored profile as it was.
UpsertTouchesOneProfile ==
    storeOp.op = "upsert" =>
        LET before == storeOp.before
            after == listProfiles(persisted)
            triple == InputTriple(storeOp.input)
            others(s) == {s[i] : i \in {j \in DOMAIN s : TripleOf(s[j]) # triple}}
        IN  /\ others(after) = others(before)
            /\ \A i \in DOMAIN before : TripleOf(before[i]) = triple =>
                  \E j \in DOMAIN after :
                     /\ TripleOf(after[j]) = triple
                     /\ after[j].id = before[i].id
                     /\ after[j].lastSessionIdentifier =
                           IF storeOp.input.lastSessionIdentifier # "undefined"
                           THEN storeOp.input.lastSessionIdentifier
                           ELSE before[i].lastSessionIdentifier
            /\ Len(after) = Len(before)
                  + IF \E i \in DOMAIN before : TripleOf(before[i]) = triple THEN 0 ELSE 1

----------------------------------------------------------------------------
(* listProfiles on whatever globalState holds *)

StoredProfile(id, now) ==
    toStored([id |-> id, name |-> <<"n">>, localPath |-> DirectoryA,
              remotePath |-> <<"r">>, mode |-> "two-way-safe", ignoreVcs |-> "true",
              ignorePaths |-> << <<"x">> >>, workspaceFolder |-> FolderW,
              lastSessionIdentifier |-> "s1", updatedAt |-> <<now>>])

\* a record whose required field is missing, is a number, or is the empty
\* string
Malformed(record) ==
    UNION {{[record EXCEPT !.types[field] = "undefined"],
            [record EXCEPT !.types[field] = "number"],
            [record EXCEPT !.values[field] = <<>>]} : field \in RequiredFields}

\* what an array in globalState may hold: well-formed records, one of them
\* with a path to normalize and optional fields of the wrong type, malformed
\* records, and values that are no records: null, a string, an array
StoredCandidates ==
    LET p == StoredProfile(<<"p">>, 1)
        q == StoredProfile(<<"q">>, 2)
    IN  {p,
         [q EXCEPT !.values.localPath = DirectoryA \o <<"/", ".">>,
                   !.values.mode = "bogus", !.values.ignoreVcs = "yes",
                   !.types.ignorePaths = "string",
                   !.types.lastSessionIdentifier = "number"],
         [p EXCEPT !.kind = "null"],
         [p EXCEPT !.kind = "string"],
         [p EXCEPT !.types = [field \in DOMAIN p.types |-> "undefined"]]}
        \cup Malformed(p)

StoredValues ==
    {[type |-> t, items |-> <<>>] : t \in {"array", "object", "string", "number"}}
    \cup {[type |-> "array", items |-> <<x>>] : x \in StoredCandidates}
    \cup {[type |-> "array", items |-> <<x, y>>] : x, y \in StoredCandidates}

InitParse ==
    /\ MainOff
    /\ pathIn = Off /\ pathOut = Off
    /\ fs = Off /\ fsPc = Off /\ fsJob = Off
    /\ LoadOff /\ SigOff /\ RestoreOff /\ CloseOff /\ MoreOff
    /\ persisted \in StoredValues
    /\ clock = 1
    /\ storeOp = NoStoreOp

ListProfiles ==
    /\ storeOp.op = "none"
    /\ storeOp' = [storeOp EXCEPT !.op = "list", !.result = listProfiles(persisted)]
    /\ UNCHANGED <<persisted, clock, StoreFrame>>

NextParse == ListProfiles

SpecParse == InitParse /\ [][NextParse]_vars

\* a record with every required field a non-empty string
WellFormed(value) ==
    /\ value.kind = "object"
    /\ \A field \in RequiredFields :
          value.types[field] = "string" /\ value.values[field] # <<>>

\* C16: a persisted value that is no array lists as no profiles; of an array
\* exactly the well-formed records are listed, each as often as it is held,
\* whatever else the array holds.
MalformedProfilesDropped ==
    storeOp.op = "list" =>
        /\ persisted.type # "array" => storeOp.result = <<>>
        /\ persisted.type = "array" =>
             LET kept == SelectSeq(persisted.items, WellFormed)
             IN  /\ Len(storeOp.result) = Len(kept)
                 /\ CountsOf([i \in DOMAIN storeOp.result |-> storeOp.result[i].id])
                      = CountsOf([i \in DOMAIN kept |-> kept[i].values.id])

\* an array of a record without updatedAt and a well-formed record lists as
\* the well-formed record alone
CorruptEntryWitness ==
    /\ storeOp.op = "list"
    /\ Len(persisted.items) = 2
    /\ persisted.items[1].kind = "object"
    /\ persisted.items[1].types.updatedAt = "undefined"
    /\ WellFormed(persisted.items[2])
    /\ Len(storeOp.result) = 1
    /\ storeOp.result[1].id = persisted.items[2].values.id

----------------------------------------------------------------------------
(* Restoring a saved profile: CommandManager.restoreConnectionProfile with  *)
(* its retry, run by the activation and by the saved-session picker, beside *)
(* the auto-refresh poll.  Users, hosts and paths are single characters.    *)

\* the default of mutagen.maxConnectionRetries
DefaultMaxRetries == 3

\* the identifiers of the engine, in the order it lists and hands them out
DaemonOrder == <<"s1", "s2", "s3">>
DaemonIds == {DaemonOrder[i] : i \in DOMAIN DaemonOrder}

\* the flows that restore the profile: the activation, with retry, and the
\* picker of saved sessions, without
Flows == {"auto", "manual"}

NoEndpoint == [protocol |-> "none", user |-> <<>>, host |-> <<>>, path |-> <<>>]
NoLive == [live |-> FALSE, alpha |-> NoEndpoint, beta |-> NoEndpoint,
           paused |-> FALSE, status |-> "none", mode |-> "none"]

\* the position of the first ch in str, or 0
indexOf(str, ch) ==
    IF \E i \in DOMAIN str : str[i] = ch
    THEN CHOOSE i \in DOMAIN str : str[i] = ch /\ \A j \in 1..(i - 1) : str[j] # ch
    ELSE 0

\* the position of the last ch in str, or 0
lastIndexOf(str, ch) ==
    IF \E i \in DOMAIN str : str[i] = ch
    THEN CHOOSE i \in DOMAIN str : str[i] = ch /\ \A j \in (i + 1)..Len(str) : str[j] # ch
    ELSE 0

endsWith(str, suffix) ==
    Len(str) >= Len(suffix)
    /\ SubSeq(str, Len(str) - Len(suffix) + 1, Len(str)) = suffix

localEndpoint(p) == [protocol |-> "local", user |-> <<>>, host |-> <<>>, path |-> p]

\* the endpoint the engine makes of the argument [user@]host:path
remoteEndpoint(url) ==
    LET at == indexOf(url, "@")
        rest == SubSeq(url, at + 1, Len(url))
        colon == indexOf(rest, ":")
    IN  [protocol |-> "ssh", user |-> SubSeq(url, 1, at - 1),
         host |-> SubSeq(rest, 1, colon - 1),
         path |-> SubSeq(rest, colon + 1, Len(rest))]

matchesRemotePath(endpoint, remotePath) ==
    LET normalizedRemotePath == trim(remotePath)
        hostPath == endpoint.host \o <<":">> \o endpoint.path
        userHostPath == IF endpoint.user # <<>>
                        THEN endpoint.user \o <<"@">> \o hostPath ELSE hostPath
        hostSegment == SubSeq(normalizedRemotePath, 1,
                              Len(normalizedRemotePath) - Len(endpoint.path) - 1)
        normalizedHost == SubSeq(hostSegment, lastIndexOf(hostSegment, "@") + 1,
                                 Len(hostSegment))
    IN  /\ normalizedRemotePath # <<>>
        /\ \/ endpoint.path = normalizedRemotePath
           \/ endpoint.host # <<>> /\ hostPath = normalizedRemotePath
           \/ endpoint.host # <<>> /\ userHostPath = normalizedRemotePath
           \/ /\ endpoint.protocol = "docker" /\ endpoint.host # <<>>
              /\ <<"docker://">> \o endpoint.host \o endpoint.path = normalizedRemotePath
           \/ /\ endpoint.host # <<>>
              /\ endsWith(normalizedRemotePath, <<":">> \o endpoint.path)
              /\ normalizedHost = endpoint.host

\* the test findSessionByEndpoints makes of one session of the list
matchesEndpoints(session, localPath, remotePath) ==
    LET local == IF session.alpha.protocol = "local" THEN session.alpha ELSE session.beta
        remote == IF session.alpha.protocol = "local" THEN session.beta ELSE session.alpha
    IN  local.path = localPath /\ matchesRemotePath(remote, remotePath)

\* findSessionByEndpoints on a list: the first session that matches, or "null"
findSessionByEndpoints(list, localPath, remotePath) ==
    LET matching == {i \in DOMAIN DaemonOrder :
                        /\ list[DaemonOrder[i]].live
                        /\ matchesEndpoints(list[DaemonOrder[i]], localPath, remotePath)}
    IN  IF matching = {} THEN "null"
        ELSE DaemonOrder[CHOOSE i \in matching : \A j \in matching : i <= j]

\* findSessionByIdentifier: getSession gives null when the command fails
findSessionByIdentifier(list, identifier, ok) ==
    IF ok /\ identifier \in DaemonIds /\ list[identifier].live THEN identifier ELSE "null"

buildCreateOptionsFromProfile(profile) ==
    [mode |-> IF profile.mode = "undefined" THEN "two-way-safe" ELSE profile.mode]

\* a test that resumes paused sessions only
needsResumePausedOnly(session) == session.paused

\* restoreConnectionProfile: the session found is to be resumed
needsResume(session) == session.paused \/ session.status = "disconnected"

\* a loop that allows one attempt more
nextAttemptAllowedOnceMore(attempt, maxAttempts) == attempt <= maxAttempts

\* restoreConnectionProfileWithRetry: the loop goes on after attempt has failed
nextAttemptAllowed(attempt, maxAttempts) == attempt + 1 <= maxAttempts

\* the profile being restored, as the store holds it
SavedProfiles ==
    [id : {"p"}, localPath : {<<"a">>},
     remotePath : {<<"u", "@", "h", ":", "b">>, <<"h", ":", "b">>},
     mode : {"undefined", "one-way-safe"},
     lastSessionIdentifier : {"undefined", "s0", "s1"}]

\* what the engine holds when the extension starts: nothing, or s1 between
\* the profile's endpoints or from another directory
StartingSessions ==
    {[paused |-> FALSE, status |-> "watching", path |-> <<"a">>],
     [paused |-> TRUE, status |-> "watching", path |-> <<"a">>],
     [paused |-> FALSE, status |-> "disconnected", path |-> <<"a">>],
     [paused |-> FALSE, status |-> "watching", path |-> <<"c">>]}

NotRestoring ==
    [pc |-> "idle", attempt |-> 0, failures |-> 0, profile |-> "none",
     byId |-> "none", session |-> "null",
     seen |-> [paused |-> FALSE, status |-> "none"], lookups |-> <<>>, resumed |-> 0,
     created |-> 0, createdOverLive |-> FALSE, result |-> "null"]

RestoreFrame == <<mainVars, pathVars, fsVars, loadVars, sigVars, storeVars, closeVars, moreVars>>

InitRestore ==
    /\ MainOff
    /\ pathIn = Off /\ pathOut = Off
    /\ fs = Off /\ fsPc = Off /\ fsJob = Off
    /\ LoadOff /\ SigOff /\ StoreOff /\ CloseOff /\ MoreOff
    /\ \/ daemon = [id \in DaemonIds |-> NoLive]
       \/ \E s \in StartingSessions :
            daemon = [id \in DaemonIds |->
                        IF id = "s1"
                        THEN [live |-> TRUE, alpha |-> localEndpoint(s.path),
                              beta |-> remoteEndpoint(<<"u", "@", "h", ":", "b">>),
                              paused |-> s.paused, status |-> s.status,
                              mode |-> "two-way-safe"]
                        ELSE NoLive]
    /\ listing = [running |-> FALSE, poll |-> "idle"]
    /\ saved \in SavedProfiles
    /\ maxRetries \in {1, DefaultMaxRetries}
    /\ restore = [f \in Flows |-> NotRestoring]

\* the limit of attempts of a flow
maxAttemptsOf(f) == IF f = "auto" THEN maxRetries ELSE 1

\* the engine holds a session between the profile's endpoints
LiveForProfile ==
    {id \in DaemonIds :
        daemon[id].live /\ matchesEndpoints(daemon[id], saved.localPath, saved.remotePath)}

\* no session was found: createSession is called
notFound(f, r) ==
    restore' = [restore EXCEPT ![f] =
                  [r EXCEPT !.pc = "create", !.created = r.created + 1,
                            !.createdOverLive = (r.createdOverLive \/ LiveForProfile # {})]]

\* MutagenService.listSessions is called: the command starts unless a list
\* is running, and then the call gives the empty list at once
callList(f, r) ==
    IF listing.running
    THEN /\ notFound(f, r)
         /\ UNCHANGED listing
    ELSE /\ restore' = [restore EXCEPT ![f] = [r EXCEPT !.pc = "list"]]
         /\ listing' = [listing EXCEPT !.running = TRUE]

\* an attempt begins: by the identifier the profile carries, else by the
\* endpoints
beginAttempt(f, r) ==
    LET fresh == [r EXCEPT !.byId = "none", !.session = "null", !.resumed = 0,
                           !.created = 0,
                           !.seen = [paused |-> FALSE, status |-> "none"]]
    IN  IF r.profile.lastSessionIdentifier # "undefined"
        THEN /\ restore' = [restore EXCEPT ![f] =
                              [fresh EXCEPT !.pc = "getSession", !.lookups = <<"id">>]]
             /\ UNCHANGED listing
        ELSE callList(f, [fresh EXCEPT !.lookups = <<"endpoints">>])

\* the attempt has thrown: the retry waits and goes on, or gives up
thrown(f, r) ==
    LET failed == [r EXCEPT !.failures = r.failures + 1]
    IN  IF f = "auto" /\ nextAttemptAllowed(r.attempt, maxAttemptsOf(f))
        THEN [failed EXCEPT !.pc = "delay"]
        ELSE [failed EXCEPT !.pc = "failed"]

\* a session was found: it is resumed, or the profile is updated
found(f, r, id) ==
    LET s == [r EXCEPT !.session = id,
                       !.seen = [paused |-> daemon[id].paused,
                                 status |-> daemon[id].status]]
    IN  IF needsResume(daemon[id])
        THEN /\ restore' = [restore EXCEPT ![f] =
                              [s EXCEPT !.pc = "resume", !.resumed = r.resumed + 1]]
             /\ UNCHANGED saved
        ELSE /\ restore' = [restore EXCEPT ![f] = [s EXCEPT !.pc = "update"]]
             /\ saved' = [saved EXCEPT !.lastSessionIdentifier = id]

\* the flow reads the profile and makes its first attempt
RestoreBegin(f) ==
    /\ restore[f].pc = "idle"
    /\ beginAttempt(f, [restore[f] EXCEPT !.profile = saved, !.attempt = 1])
    /\ UNCHANGED <<daemon, saved, maxRetries, RestoreFrame>>

GetSessionDone(f, ok) ==
    /\ restore[f].pc = "getSession"
    /\ LET id == findSessionByIdentifier(daemon, restore[f].profile.lastSessionIdentifier, ok)
           r == [restore[f] EXCEPT !.byId = id]
       IN  IF id # "null"
           THEN found(f, r, id) /\ UNCHANGED listing
           ELSE /\ callList(f, [r EXCEPT !.lookups = Append(r.lookups, "endpoints")])
                /\ UNCHANGED saved
    /\ UNCHANGED <<daemon, maxRetries, RestoreFrame>>

ListDone(f, ok) ==
    /\ restore[f].pc = "list"
    /\ listing' = [listing EXCEPT !.running = FALSE]
    /\ IF ~ok
       THEN /\ restore' = [restore EXCEPT ![f] = thrown(f, restore[f])]
            /\ UNCHANGED saved
       ELSE LET id == findSessionByEndpoints(daemon, restore[f].profile.localPath,
                                             restore[f].profile.remotePath)
            IN  IF id # "null" THEN found(f, restore[f], id)
                ELSE notFound(f, restore[f]) /\ UNCHANGED saved
    /\ UNCHANGED <<daemon, maxRetries, RestoreFrame>>

ResumeDone(f, ok) ==
    /\ restore[f].pc = "resume"
    /\ IF ok
       THEN /\ daemon' = [daemon EXCEPT ![restore[f].session].paused = FALSE,
                                        ![restore[f].session].status = "watching"]
            /\ saved' = [saved EXCEPT !.lastSessionIdentifier = restore[f].session]
            /\ restore' = [restore EXCEPT ![f].pc = "update"]
       ELSE /\ restore' = [restore EXCEPT ![f] = thrown(f, restore[f])]
            /\ UNCHANGED <<daemon, saved>>
    /\ UNCHANGED <<listing, maxRetries, RestoreFrame>>

CreateDone(f, ok) ==
    /\ restore[f].pc = "create"
    /\ IF ok
       THEN LET free == {i \in DOMAIN DaemonOrder : ~daemon[DaemonOrder[i]].live}
                id == DaemonOrder[CHOOSE i \in free : \A j \in free : i <= j]
            IN  /\ daemon' = [daemon EXCEPT ![id] =
                     [live |-> TRUE,
                      alpha |-> localEndpoint(restore[f].profile.localPath),
                      beta |-> remoteEndpoint(restore[f].profile.remotePath),
                      paused |-> FALSE, status |-> "watching",
                      mode |-> buildCreateOptionsFromProfile(restore[f].profile).mode]]
                /\ saved' = [saved EXCEPT !.lastSessionIdentifier = id]
                /\ restore' = [restore EXCEPT ![f].session = id, ![f].pc = "update"]
       ELSE /\ restore' = [restore EXCEPT ![f] = thrown(f, restore[f])]
            /\ UNCHANGED <<daemon, saved>>
    /\ UNCHANGED <<listing, maxRetries, RestoreFrame>>

\* the profile is written: the flow returns the identifier
UpdateDone(f) ==
    /\ restore[f].pc = "update"
    /\ restore' = [restore EXCEPT ![f].pc = "done", ![f].result = restore[f].session]
    /\ UNCHANGED <<daemon, listing, saved, maxRetries, RestoreFrame>>

\* the delay before the next attempt is over
DelayDone(f) ==
    /\ restore[f].pc = "delay"
    /\ beginAttempt(f, [restore[f] EXCEPT !.attempt = restore[f].attempt + 1])
    /\ UNCHANGED <<daemon, saved, maxRetries, RestoreFrame>>

\* the auto-refresh poll lists the sessions
PollList ==
    /\ listing.poll = "idle"
    /\ ~listing.running
    /\ listing' = [running |-> TRUE, poll |-> "listing"]
    /\ UNCHANGED <<daemon, saved, maxRetries, restore, RestoreFrame>>

PollListDone ==
    /\ listing.poll = "listing"
    /\ listing' = [running |-> FALSE, poll |-> "idle"]
    /\ UNCHANGED <<daemon, saved, maxRetries, restore, RestoreFrame>>

RestoreStep(f) ==
    \/ RestoreBegin(f)
    \/ \E ok \in BOOLEAN : GetSessionDone(f, ok)
    \/ \E ok \in BOOLEAN : ListDone(f, ok)
    \/ \E ok \in BOOLEAN : ResumeDone(f, ok)
    \/ \E ok \in BOOLEAN : CreateDone(f, ok)
    \/ UpdateDone(f)
    \/ DelayDone(f)

NextRestore ==
    \/ \E f \in Flows : RestoreStep(f)
    \/ PollList
    \/ PollListDone

SpecRestore == InitRestore /\ [][NextRestore]_vars

\* every command and every delay of the retrying flow comes to its end
SpecRestoreFair == SpecRestore /\ WF_vars(RestoreStep("auto")) /\ WF_vars(PollListDone)

\* the lookups an attempt of flow record r has to have made
LookupsDue(r) ==
    IF r.profile.lastSessionIdentifier = "undefined" THEN <<"endpoints">>
    ELSE IF r.byId # "null" THEN <<"id">>
    ELSE <<"id", "endpoints">>

\* C17: an attempt that succeeds has looked the session up by the identifier
\* of the profile first and by the endpoints only when that found none; a
\* session found paused or disconnected was resumed once and none created; a
\* session found running saw no command that changes the engine; when none
\* was found one session was created between the profile's paths in its
\* saved mode; the profile then carries the identifier, which is returned.
RestoreResolvesOnce ==
    [][\A f \in Flows :
        /\ (restore[f].pc # "update" /\ restore'[f].pc = "update") =>
            LET r == restore'[f]
                p == r.profile
            IN  /\ r.lookups = LookupsDue(r)
                /\ r.byId \notin {"none", "null"} => r.session = r.byId
                /\ saved'.lastSessionIdentifier = r.session
                /\ restore[f].pc = "resume" =>
                      /\ r.seen.paused \/ r.seen.status = "disconnected"
                      /\ r.resumed = 1 /\ r.created = 0
                      /\ ~daemon'[r.session].paused
                /\ restore[f].pc \in {"getSession", "list"} =>
                      /\ ~r.seen.paused /\ r.seen.status # "disconnected"
                      /\ r.resumed = 0 /\ r.created = 0
                      /\ daemon' = daemon
                /\ restore[f].pc = "create" =>
                      /\ r.resumed = 0 /\ r.created = 1
                      /\ ~daemon[r.session].live /\ daemon'[r.session].live
                      /\ daemon'[r.session].alpha.path = p.localPath
                      /\ daemon'[r.session].beta = remoteEndpoint(p.remotePath)
                      /\ daemon'[r.session].mode =
                            (IF p.mode = "undefined" THEN "two-way-safe" ELSE p.mode)
                      /\ \A id \in DaemonIds \ {r.session} : daemon'[id] = daemon[id]
                /\ restore[f].pc \in {"resume", "getSession", "list", "create"}
        /\ (restore[f].pc = "update" /\ restore'[f].pc = "done") =>
            /\ restore'[f].result = restore[f].session
            /\ daemon' = daemon /\ saved' = saved]_vars

\* C18: no flow has called createSession while the engine held a session
\* between the profile's endpoints, and the engine holds at most one such
\* session.
RestoreNeverDuplicates ==
    /\ \A f \in Flows : ~restore[f].createdOverLive
    /\ Cardinality(LiveForProfile) <= 1

\* C19: the retrying flow makes at most maxRetries attempts; when it has
\* returned an identifier every attempt before the last had failed and it
\* makes no other; when it has raised its error maxRetries attempts had
\* failed; and once begun it comes to one of the two.
RetryTerminates ==
    /\ [](/\ restore["auto"].attempt <= maxRetries
          /\ restore["auto"].pc = "done" =>
                /\ restore["auto"].result \in DaemonIds
                /\ restore["auto"].failures = restore["auto"].attempt - 1
          /\ restore["auto"].pc = "failed" =>
                /\ restore["auto"].failures = maxRetries
                /\ restore["auto"].attempt = maxRetries)
    /\ [][restore["auto"].pc \in {"done", "failed"} =>
            restore'["auto"] = restore["auto"]]_vars
    /\ (restore["auto"].pc # "idle") ~> (restore["auto"].pc \in {"done", "failed"})

\* the retrying flow has returned a session after two attempts that failed
ThirdAttemptWitness ==
    /\ restore["auto"].pc = "done"
    /\ restore["auto"].attempt = DefaultMaxRetries
    /\ restore["auto"].failures = DefaultMaxRetries - 1

\* a flow has returned a disconnected session that the stale identifier of
\* the profile missed, the endpoints found, and the flow resumed
ResumedByEndpointsWitness ==
    \E f \in Flows :
        /\ restore[f].pc = "done"
        /\ restore[f].lookups = <<"id", "endpoints">>
        /\ restore[f].seen.status = "disconnected"
        /\ restore[f].resumed = 1
        /\ restore[f].result = "s1"

----------------------------------------------------------------------------
(* Closing: handleWorkspaceFolderChanges and deactivate of the extension,   *)
(* with the sessions and profiles the activation has restored.  A path is   *)
(* the sequence of its segments.                                            *)

\* the workspace folders of the window
Folders == {<<"w">>, <<"v">>}

\* the saved profiles, the folder each belongs to, and the session each
\* restores: its identifier and its local path
CloseProfiles == {"p1", "p2"}
folderOf(profileId) == IF profileId = "p1" THEN <<"w">> ELSE <<"v">>
sessionOf(profileId) == IF profileId = "p1" THEN "s1" ELSE "s2"
CloseSessions == {sessionOf(p) : p \in CloseProfiles}
localPathOf(id) == IF id = "s1" THEN <<"w", "a">> ELSE <<"v">>

isSameOrSubPath(candidatePath, basePath) ==
    \/ candidatePath = basePath
    \/ /\ Len(candidatePath) > Len(basePath)
       /\ SubSeq(candidatePath, 1, Len(basePath)) = basePath

isPathRelatedToWorkspaceFolder(localPath, workspaceFolderPath) ==
    \/ isSameOrSubPath(localPath, workspaceFolderPath)
    \/ isSameOrSubPath(workspaceFolderPath, localPath)

\* pauseSessionsForWorkspaceFolders: the sessions of the list to pause
matchedSessions(list, workspaceFolderPaths) ==
    {id \in CloseSessions :
        /\ list[id].live
        /\ ~list[id].paused
        /\ \E w \in workspaceFolderPaths :
              isPathRelatedToWorkspaceFolder(localPathOf(id), w)}

\* terminateRestoredProfilesForWorkspace: the sessions it terminates
restoredOfWorkspace(workspaceFolder) ==
    {lastIds[p] : p \in {q \in restoredProfilesByWorkspace[workspaceFolder] :
                            lastIds[q] # "undefined"}}

\* terminateTrackedSessions: the sessions it terminates
trackedSessions ==
    restoredSessionIds \cup
    {lastIds[p] : p \in {q \in UNION {restoredProfilesByWorkspace[w] : w \in Folders} :
                            lastIds[q] # "undefined"}}

\* a session the activation has not restored
UnrestoredSessions ==
    {[live |-> FALSE, paused |-> FALSE], [live |-> TRUE, paused |-> FALSE],
     [live |-> TRUE, paused |-> TRUE]}

Idle == [at |-> "idle", folder |-> <<>>, matched |-> {}]

CloseFrame == <<mainVars, pathVars, fsVars, loadVars, sigVars, storeVars, restoreVars, moreVars>>

\* the window after activate: autoRestoreConnections has restored and tracked
\* some of the profiles
InitClose ==
    /\ MainOff
    /\ pathIn = Off /\ pathOut = Off
    /\ fs = Off /\ fsPc = Off /\ fsJob = Off
    /\ LoadOff /\ SigOff /\ StoreOff /\ RestoreOff /\ MoreOff
    /\ workspaceFolders = Folders
    /\ terminateOnClose \in BOOLEAN
    /\ \E restored \in SUBSET CloseProfiles :
         /\ restoredSessionIds = {sessionOf(p) : p \in restored}
         /\ restoredProfilesByWorkspace =
              [w \in Folders |-> {p \in restored : folderOf(p) = w}]
         /\ mirrors \in [CloseSessions -> UnrestoredSessions]
         /\ \A p \in restored : mirrors[sessionOf(p)] = [live |-> TRUE, paused |-> FALSE]
         /\ lastIds \in [CloseProfiles -> {"undefined", "s1", "s2"}]
         /\ \A p \in CloseProfiles :
              /\ lastIds[p] \in {"undefined", sessionOf(p)}
              /\ p \in restored => lastIds[p] = sessionOf(p)
    /\ closePc = Idle
    /\ issued = {}

\* a folder leaves the window: the handler lists the sessions
FolderRemoved(folder) ==
    /\ closePc.at = "idle"
    /\ folder \in workspaceFolders
    /\ workspaceFolders' = workspaceFolders \ {folder}
    /\ closePc' = [at |-> "removalList", folder |-> folder, matched |-> {}]
    /\ UNCHANGED <<restoredSessionIds, restoredProfilesByWorkspace, terminateOnClose,
                   mirrors, lastIds, issued, CloseFrame>>

\* the list ends: a failure ends the handler, else the sessions to pause
\* are chosen
RemovalListed(ok) ==
    /\ closePc.at = "removalList"
    /\ closePc' = IF ok
                  THEN [closePc EXCEPT !.at = "removalPause",
                                       !.matched = matchedSessions(mirrors, {closePc.folder})]
                  ELSE Idle
    /\ UNCHANGED <<workspaceFolders, restoredSessionIds, restoredProfilesByWorkspace,
                   terminateOnClose, mirrors, lastIds, issued, CloseFrame>>

\* the pause commands: each may fail, which is logged
pauseMatched(failed) ==
    /\ mirrors' = [id \in CloseSessions |->
                     IF id \in closePc.matched \ failed
                     THEN [mirrors[id] EXCEPT !.paused = TRUE] ELSE mirrors[id]]
    /\ issued' = issued \cup {[command |-> "pause", id |-> id, by |-> closePc.at] :
                                id \in closePc.matched}

\* the terminate commands: each may fail, which is logged
terminateAll(ids, failed) ==
    /\ mirrors' = [id \in CloseSessions |->
                     IF id \in ids \ failed
                     THEN [live |-> FALSE, paused |-> FALSE] ELSE mirrors[id]]
    /\ issued' = issued \cup {[command |-> "terminate", id |-> id, by |-> closePc.at] :
                                id \in ids}

RemovalPaused(failed) ==
    /\ closePc.at = "removalPause"
    /\ failed \subseteq closePc.matched
    /\ pauseMatched(failed)
    /\ closePc' = [closePc EXCEPT !.at = "removalTerminate", !.matched = {}]
    /\ UNCHANGED <<workspaceFolders, restoredSessionIds, restoredProfilesByWorkspace,
                   terminateOnClose, lastIds, CloseFrame>>

\* terminateRestoredProfilesForWorkspace of the removed folder
RemovalTerminated(failed) ==
    /\ closePc.at = "removalTerminate"
    /\ failed \subseteq restoredOfWorkspace(closePc.folder)
    /\ terminateAll(restoredOfWorkspace(closePc.folder), failed)
    /\ restoredSessionIds' = restoredSessionIds \ restoredOfWorkspace(closePc.folder)
    /\ restoredProfilesByWorkspace' =
         [restoredProfilesByWorkspace EXCEPT ![closePc.folder] = {}]
    /\ closePc' = Idle
    /\ UNCHANGED <<workspaceFolders, terminateOnClose, lastIds, CloseFrame>>

\* a folder joins the window: its profiles are restored and tracked when the
\* restore succeeds
FolderAdded(folder, restored) ==
    /\ closePc.at = "idle"
    /\ folder \in Folders \ workspaceFolders
    /\ restored \subseteq {p \in CloseProfiles : folderOf(p) = folder}
    /\ workspaceFolders' = workspaceFolders \cup {folder}
    /\ mirrors' = [id \in CloseSessions |->
                     IF \E p \in restored : sessionOf(p) = id
                     THEN [live |-> TRUE, paused |-> FALSE] ELSE mirrors[id]]
    /\ lastIds' = [p \in CloseProfiles |->
                     IF p \in restored THEN sessionOf(p) ELSE lastIds[p]]
    /\ restoredSessionIds' = restoredSessionIds \cup {sessionOf(p) : p \in restored}
    /\ restoredProfilesByWorkspace' =
         [restoredProfilesByWorkspace EXCEPT
            ![folder] = restoredProfilesByWorkspace[folder] \cup restored]
    /\ UNCHANGED <<terminateOnClose, closePc, issued, CloseFrame>>

\* deactivate: the sessions of the open folders are listed, if there are any
Deactivate ==
    /\ closePc.at = "idle"
    /\ closePc' = [closePc EXCEPT !.at = IF workspaceFolders # {}
                                         THEN "deactivateList" ELSE "deactivateTerminate"]
    /\ UNCHANGED <<workspaceFolders, restoredSessionIds, restoredProfilesByWorkspace,
                   terminateOnClose, mirrors, lastIds, issued, CloseFrame>>

DeactivateListed(ok) ==
    /\ closePc.at = "deactivateList"
    /\ closePc' = IF ok
                  THEN [closePc EXCEPT !.at = "deactivatePause",
                                       !.matched = matchedSessions(mirrors, workspaceFolders)]
                  ELSE [closePc EXCEPT !.at = "deactivated"]
    /\ UNCHANGED <<workspaceFolders, restoredSessionIds, restoredProfilesByWorkspace,
                   terminateOnClose, mirrors, lastIds, issued, CloseFrame>>

DeactivatePaused(failed) ==
    /\ closePc.at = "deactivatePause"
    /\ failed \subseteq closePc.matched
    /\ pauseMatched(failed)
    /\ closePc' = [closePc EXCEPT !.at = "deactivateTerminate", !.matched = {}]
    /\ UNCHANGED <<workspaceFolders, restoredSessionIds, restoredProfilesByWorkspace,
                   terminateOnClose, lastIds, CloseFrame>>

\* terminateTrackedSessions, when the option asks for it
DeactivateTerminated(failed) ==
    /\ closePc.at = "deactivateTerminate"
    /\ IF terminateOnClose
       THEN /\ failed \subseteq trackedSessions
            /\ terminateAll(trackedSessions, failed)
            /\ restoredSessionIds' = {}
            /\ restoredProfilesByWorkspace' = [w \in Folders |-> {}]
       ELSE /\ failed = {}
            /\ UNCHANGED <<mirrors, issued, restoredSessionIds, restoredProfilesByWorkspace>>
    /\ closePc' = [closePc EXCEPT !.at = "deactivated"]
    /\ UNCHANGED <<workspaceFolders, terminateOnClose, lastIds, CloseFrame>>

NextClose ==
    \/ \E folder \in Folders : FolderRemoved(folder)
    \/ \E ok \in BOOLEAN : RemovalListed(ok)
    \/ \E failed \in SUBSET CloseSessions : RemovalPaused(failed)
    \/ \E failed \in SUBSET CloseSessions : RemovalTerminated(failed)
    \/ \E folder \in Folders, restored \in SUBSET CloseProfiles : FolderAdded(folder, restored)
    \/ Deactivate
    \/ \E ok \in BOOLEAN : DeactivateListed(ok)
    \/ \E failed \in SUBSET CloseSessions : DeactivatePaused(failed)
    \/ \E failed \in SUBSET CloseSessions : DeactivateTerminated(failed)

SpecClose == InitClose /\ [][NextClose]_vars

\* C20: while terminateRestoredSessionsOnClose is off, neither the removal
\* of a folder nor deactivate has called terminateSession.
NoTerminateWhileOptionOff ==
    ~terminateOnClose => \A c \in issued : c.command # "terminate"

\* deactivate alone keeps to the option
DeactivateKeepsOption ==
    ~terminateOnClose =>
        \A c \in issued : c.command = "terminate" => c.by = "removalTerminate"

----------------------------------------------------------------------------
(* The status bar's transfer rates: StatusBarManager with one session, its  *)
(* monitor and the polls.  Times are milliseconds, rates bytes per second.  *)

earlierVars == <<mainVars, pathVars, fsVars, loadVars, sigVars, storeVars,
                 restoreVars, closeVars>>
EarlierOff ==
    /\ MainOff
    /\ pathIn = Off /\ pathOut = Off
    /\ fs = Off /\ fsPc = Off /\ fsJob = Off
    /\ LoadOff /\ SigOff /\ StoreOff /\ RestoreOff /\ CloseOff

RATE_SAMPLE_INTERVAL_MS == 500

\* the step of Date.now() between two events, and the steps of a behaviour
TickMs == 250
MaxTicks == 4

\* the byte counters a staging progress carries
Counters == {0, 30}

\* the sessions a monitor line or a poll delivers; Undefined stands for an
\* endpoint or a session without stagingProgress
RateSessions ==
    [status : {"staging-alpha", "staging-beta", "watching"},
     alpha : [protocol : {"local", "ssh"}, stagingProgress : Counters \cup {Undefined}],
     beta : [protocol : {"local", "ssh"}, stagingProgress : Counters \cup {Undefined}],
     stagingProgress : {Undefined, 30}]

\* one endpoint local and one remote; progress on one endpoint, on both, or
\* on the session alone
RateSamples ==
    {s \in RateSessions :
        /\ s.alpha.protocol # s.beta.protocol
        /\ \/ s.alpha.stagingProgress = Undefined
           \/ s.beta.stagingProgress = Undefined
           \/ s.alpha.stagingProgress = 30 /\ s.beta.stagingProgress = 30
        /\ s.stagingProgress # Undefined =>
              s.alpha.stagingProgress = Undefined /\ s.beta.stagingProgress = Undefined}

\* a ?? b
orElse(a, b) == IF a # Undefined THEN a ELSE b

\* getStagingReceivedSize: the receivedSize of getSessionStagingProgress, or
\* Undefined for null
getStagingReceivedSize(session) ==
    IF session.status = "staging-alpha"
    THEN orElse(session.alpha.stagingProgress, session.stagingProgress)
    ELSE IF session.status = "staging-beta"
    THEN orElse(session.beta.stagingProgress, session.stagingProgress)
    ELSE orElse(session.stagingProgress,
                orElse(session.alpha.stagingProgress, session.beta.stagingProgress))

isLocalAlpha(session) ==
    IF session.alpha.protocol = "local" /\ session.beta.protocol # "local" THEN TRUE
    ELSE IF session.beta.protocol = "local" /\ session.alpha.protocol # "local" THEN FALSE
    ELSE session.alpha.protocol = "local"

\* resolveTransferDirection: "upload", "download" or "null"
resolveTransferDirection(session, localAlpha) ==
    IF session.status = "staging-alpha"
    THEN (IF localAlpha THEN "upload" ELSE "download")
    ELSE IF session.status = "staging-beta"
    THEN (IF localAlpha THEN "download" ELSE "upload")
    ELSE IF session.alpha.stagingProgress # Undefined /\ session.beta.stagingProgress = Undefined
    THEN (IF localAlpha THEN "upload" ELSE "download")
    ELSE IF session.beta.stagingProgress # Undefined /\ session.alpha.stagingProgress = Undefined
    THEN (IF localAlpha THEN "download" ELSE "upload")
    ELSE "null"

NoRate == [present |-> FALSE, lastReceivedSize |-> 0, lastTimestamp |-> 0,
           uploadRate |-> 0, downloadRate |-> 0, isLocalAlpha |-> FALSE,
           hasSample |-> FALSE]

createRateState(session, now) ==
    LET receivedSize == orElse(getStagingReceivedSize(session), 0)
    IN  [present |-> TRUE, lastReceivedSize |-> receivedSize, lastTimestamp |-> now,
         uploadRate |-> 0, downloadRate |-> 0, isLocalAlpha |-> isLocalAlpha(session),
         hasSample |-> receivedSize > 0]

\* a rate without the lower limit
currentRateSigned(transferredBytes, elapsedMilliseconds) ==
    IF elapsedMilliseconds > 0
    THEN (transferredBytes * 1000) \div elapsedMilliseconds ELSE 0

\* Math.max(0, transferredBytes / elapsedSeconds)
currentRate(transferredBytes, elapsedMilliseconds) ==
    IF elapsedMilliseconds > 0
    THEN (IF (transferredBytes * 1000) \div elapsedMilliseconds < 0 THEN 0
          ELSE (transferredBytes * 1000) \div elapsedMilliseconds)
    ELSE 0

\* a test that lets every sample through
sampleTooEarlyNever(elapsedMilliseconds) == FALSE

\* elapsedMilliseconds < RATE_SAMPLE_INTERVAL_MS
sampleTooEarly(elapsedMilliseconds) == elapsedMilliseconds < RATE_SAMPLE_INTERVAL_MS

\* the rate stored by its direction
attribute(rateState, direction, rate) ==
    [rateState EXCEPT !.uploadRate = IF direction = "upload" THEN rate ELSE 0,
                      !.downloadRate = IF direction = "download" THEN rate ELSE 0]

updateWorkspaceRateFromMonitor(rates, session, now) ==
    LET currentReceivedSize == getStagingReceivedSize(session)
        existing == IF rates.present THEN rates ELSE createRateState(session, now)
        rateState == [existing EXCEPT !.isLocalAlpha = isLocalAlpha(session)]
        direction == resolveTransferDirection(session, rateState.isLocalAlpha)
        elapsedMilliseconds == now - rateState.lastTimestamp
    IN  IF currentReceivedSize = Undefined
        THEN [rateState EXCEPT !.uploadRate = 0, !.downloadRate = 0, !.lastTimestamp = now]
        ELSE IF direction = "null"
        THEN [rateState EXCEPT !.uploadRate = 0, !.downloadRate = 0,
                               !.lastReceivedSize = currentReceivedSize,
                               !.lastTimestamp = now, !.hasSample = TRUE]
        ELSE IF ~rateState.hasSample
        THEN [rateState EXCEPT !.lastReceivedSize = currentReceivedSize,
                               !.lastTimestamp = now, !.uploadRate = 0,
                               !.downloadRate = 0, !.hasSample = TRUE]
        ELSE IF sampleTooEarly(elapsedMilliseconds) THEN rateState
        ELSE [attribute(rateState, direction,
                        currentRate(currentReceivedSize - rateState.lastReceivedSize,
                                    elapsedMilliseconds))
                EXCEPT !.lastReceivedSize = currentReceivedSize,
                       !.lastTimestamp = now, !.hasSample = TRUE]

\* ensureWorkspaceMonitoring, for the rate state of the session
ensureRateState(rates, session, now) ==
    IF rates.present THEN [rates EXCEPT !.isLocalAlpha = isLocalAlpha(session)]
    ELSE createRateState(session, now)

normalizeWorkspaceRates(rates, session, now) ==
    LET existing == IF rates.present THEN rates ELSE createRateState(session, now)
        direction == resolveTransferDirection(session, existing.isLocalAlpha)
        currentReceivedSize == getStagingReceivedSize(session)
        idle == IF direction = "null"
                THEN [existing EXCEPT !.uploadRate = 0, !.downloadRate = 0]
                ELSE existing
    IN  IF currentReceivedSize # Undefined
           /\ (~idle.hasSample \/ currentReceivedSize < idle.lastReceivedSize)
        THEN [idle EXCEPT !.lastReceivedSize = currentReceivedSize,
                          !.lastTimestamp = now, !.hasSample = TRUE]
        ELSE idle

NoStats == [present |-> FALSE, bytesTransferred |-> 0, timestamp |-> 0]

\* updateTransferRate for the one session: the rate shown and the baseline;
\* the session counts when it has staging progress
updateTransferRate(stats, session, now) ==
    LET currentBytes == getStagingReceivedSize(session)
    IN  IF currentBytes = Undefined THEN [totalRate |-> 0, stats |-> stats]
        ELSE [totalRate |-> IF stats.present
                            THEN currentRate(currentBytes - stats.bytesTransferred,
                                             now - stats.timestamp)
                            ELSE 0,
              stats |-> [present |-> TRUE, bytesTransferred |-> currentBytes,
                         timestamp |-> now]]

Unmonitored == [tracked |-> FALSE, running |-> FALSE]

\* the side that receives by the session's status: the local endpoint, the
\* remote one, or "none" when the status names no side
receiverOf(session) ==
    IF session.status = "staging-alpha"
    THEN (IF session.alpha.protocol = "local" THEN "local" ELSE "remote")
    ELSE IF session.status = "staging-beta"
    THEN (IF session.beta.protocol = "local" THEN "local" ELSE "remote")
    ELSE "none"

\* the event that was handled last and what its session carried
NoRateOp == [kind |-> "none", received |-> Undefined, receiver |-> "none",
             inferred |-> FALSE, lowered |-> FALSE, early |-> FALSE]
rateOpOf(kind, session) ==
    [kind |-> kind, received |-> getStagingReceivedSize(session),
     receiver |-> receiverOf(session),
     inferred |-> resolveTransferDirection(session, isLocalAlpha(session)) # "null",
     lowered |-> /\ workspaceRates.present
                 /\ getStagingReceivedSize(session) # Undefined
                 /\ getStagingReceivedSize(session) < workspaceRates.lastReceivedSize,
     early |-> /\ workspaceRates.present /\ workspaceRates.hasSample
               /\ rateClock - workspaceRates.lastTimestamp < RATE_SAMPLE_INTERVAL_MS]

RateFrame == <<earlierVars, execVars, mutating, application, resuming, lastVars>>

InitRate ==
    /\ EarlierOff /\ ExecOff /\ mutating = Off /\ application = Off /\ resuming = Off
    /\ LastOff
    /\ workspaceRates = NoRate
    /\ monitoring = Unmonitored
    /\ lastStats = NoStats
    /\ transferRate = 0
    /\ rateClock = 0
    /\ rateOp = NoRateOp

\* Date.now() moves on
RateTick ==
    /\ rateClock + TickMs <= MaxTicks * TickMs
    /\ rateClock' = rateClock + TickMs
    /\ UNCHANGED <<workspaceRates, monitoring, lastStats, transferRate, rateOp, RateFrame>>

\* handleWorkspaceMonitorUpdate: a line of the session's monitor
MonitorUpdate(session) ==
    /\ monitoring.tracked /\ monitoring.running
    /\ workspaceRates' = updateWorkspaceRateFromMonitor(workspaceRates, session, rateClock)
    /\ rateOp' = rateOpOf("monitor", session)
    /\ UNCHANGED <<monitoring, lastStats, transferRate, rateClock, RateFrame>>

\* the monitor's process fails
MonitorError ==
    /\ monitoring.running
    /\ monitoring' = [monitoring EXCEPT !.running = FALSE]
    /\ workspaceRates' = IF workspaceRates.present
                         THEN [workspaceRates EXCEPT !.uploadRate = 0, !.downloadRate = 0]
                         ELSE workspaceRates
    /\ rateOp' = [NoRateOp EXCEPT !.kind = "error"]
    /\ UNCHANGED <<lastStats, transferRate, rateClock, RateFrame>>

\* updateStatus with the session in a folder of the window
PollWorkspace(session) ==
    /\ workspaceRates' = normalizeWorkspaceRates(
                            ensureRateState(workspaceRates, session, rateClock),
                            session, rateClock)
    /\ monitoring' = [tracked |-> TRUE, running |-> TRUE]
    /\ transferRate' = 0
    /\ rateOp' = rateOpOf("poll", session)
    /\ UNCHANGED <<lastStats, rateClock, RateFrame>>

\* updateStatus with the session outside the window's folders
PollGlobal(session) ==
    /\ workspaceRates' = NoRate
    /\ monitoring' = Unmonitored
    /\ LET r == updateTransferRate(lastStats, session, rateClock)
       IN  transferRate' = r.totalRate /\ lastStats' = r.stats
    /\ rateOp' = rateOpOf("global", session)
    /\ UNCHANGED <<rateClock, RateFrame>>

\* updateStatus with no session
PollEmpty ==
    /\ workspaceRates' = NoRate
    /\ monitoring' = Unmonitored
    /\ transferRate' = 0
    /\ rateOp' = [NoRateOp EXCEPT !.kind = "empty"]
    /\ UNCHANGED <<lastStats, rateClock, RateFrame>>

NextRate ==
    \/ RateTick
    \/ \E session \in RateSamples : MonitorUpdate(session)
    \/ MonitorError
    \/ \E session \in RateSamples : PollWorkspace(session)
    \/ \E session \in RateSamples : PollGlobal(session)
    \/ PollEmpty

SpecRate == InitRate /\ [][NextRate]_vars

\* the step is the handling of an event of this kind
RateEvent(kind) == rateClock' = rateClock /\ rateOp'.kind = kind

\* the event carries a byte counter below the stored baseline
BelowBaseline ==
    /\ workspaceRates.present
    /\ rateOp'.received # Undefined
    /\ rateOp'.received < workspaceRates.lastReceivedSize

\* the event falls inside the sampling interval of a session that has a
\* baseline and a direction
InsideInterval ==
    /\ workspaceRates.present /\ workspaceRates.hasSample
    /\ rateOp'.inferred
    /\ rateClock - workspaceRates.lastTimestamp < 500

RatesNotNegative ==
    /\ workspaceRates.uploadRate >= 0
    /\ workspaceRates.downloadRate >= 0
    /\ transferRate >= 0

LowerCounterStep ==
    /\ (RateEvent("poll") /\ BelowBaseline) =>
          workspaceRates'.lastReceivedSize = rateOp'.received
    /\ (RateEvent("monitor") /\ BelowBaseline /\ ~InsideInterval) =>
          /\ workspaceRates'.lastReceivedSize = rateOp'.received
          /\ workspaceRates'.lastTimestamp = rateClock
          /\ workspaceRates'.uploadRate = 0 /\ workspaceRates'.downloadRate = 0
    /\ (RateEvent("monitor") /\ BelowBaseline /\ InsideInterval) =>
          workspaceRates'.lastReceivedSize = workspaceRates.lastReceivedSize
    /\ (/\ RateEvent("global") /\ lastStats.present
        /\ rateOp'.received # Undefined
        /\ rateOp'.received < lastStats.bytesTransferred) =>
          /\ transferRate' = 0
          /\ lastStats'.bytesTransferred = rateOp'.received

RateComputed ==
    /\ RateEvent("monitor")
    /\ workspaceRates.present /\ workspaceRates.hasSample
    /\ rateOp'.received # Undefined /\ rateOp'.inferred
    /\ rateClock - workspaceRates.lastTimestamp >= 500

\* C22: a computed rate is stored as downloadRate, with uploadRate 0, when
\* the side that receives by the status is the local endpoint, and as
\* uploadRate, with downloadRate 0, when it is the remote endpoint.
RateAttributedByReceiver ==
    [][RateComputed =>
        /\ (rateOp'.receiver = "local" => workspaceRates'.uploadRate = 0)
        /\ (rateOp'.receiver = "remote" => workspaceRates'.downloadRate = 0)]_vars

EarlySampleKeeps ==
    /\ workspaceRates'.uploadRate = workspaceRates.uploadRate
    /\ workspaceRates'.downloadRate = workspaceRates.downloadRate
    /\ workspaceRates'.lastReceivedSize = workspaceRates.lastReceivedSize
    /\ workspaceRates'.lastTimestamp = workspaceRates.lastTimestamp

\* C29 as stated: a monitor sample of a session that has a baseline and a
\* direction, less than 500 ms after the baseline, changes neither the rates
\* nor the baseline.
EarlySampleChangesNothing ==
    [][(RateEvent("monitor") /\ InsideInterval) => EarlySampleKeeps]_vars

EarlySampleStep ==
    /\ (RateEvent("monitor") /\ InsideInterval /\ rateOp'.received # Undefined) =>
          EarlySampleKeeps
    /\ (RateEvent("monitor") /\ InsideInterval /\ rateOp'.received = Undefined) =>
          /\ workspaceRates'.uploadRate = 0 /\ workspaceRates'.downloadRate = 0
          /\ workspaceRates'.lastTimestamp = rateClock
    /\ (/\ RateEvent("monitor")
        /\ workspaceRates'.uploadRate + workspaceRates'.downloadRate > 0
        /\ <<workspaceRates'.uploadRate, workspaceRates'.downloadRate>> #
           <<workspaceRates.uploadRate, workspaceRates.downloadRate>>) =>
          /\ workspaceRates.present /\ workspaceRates.hasSample
          /\ rateClock - workspaceRates.lastTimestamp >= 500

\* C29, amended: such a sample changes neither the rates nor the baseline
\* when it carries a byte counter (without one the rates become 0 and the
\* baseline's timestamp moves); and a monitor sample that stores a rate
\* other than 0 comes at least 500 ms after the baseline.
EarlyCountedSampleChangesNothing ==
    [][EarlySampleStep]_vars

\* a monitor sample with a higher counter came 250 ms after the baseline and
\* left the baseline and a rate computed before
EarlySampleWitness ==
    /\ rateOp.kind = "monitor" /\ rateOp.early /\ rateOp.inferred
    /\ rateOp.received # Undefined
    /\ rateOp.received > workspaceRates.lastReceivedSize
    /\ workspaceRates.lastTimestamp < rateClock
    /\ workspaceRates.uploadRate + workspaceRates.downloadRate > 0

----------------------------------------------------------------------------
(* MutagenService.execute: the command keys and the engine processes        *)

\* processes spawned in one behaviour
MaxSpawns == 3

\* the callers of execute, and the keys they pass; "none" is a call without
\* a commandKey
Callers == {"c1", "c2", "c3"}
CommandKeys == {"list", "version", "none"}

ExecFrame == <<earlierVars, rateVars, mutating, application, resuming, lastVars>>

InitExec ==
    /\ EarlierOff /\ RateOff /\ mutating = Off /\ application = Off /\ resuming = Off
    /\ LastOff
    /\ execKeys = {}
    /\ requests = [c \in Callers |-> "idle"]
    /\ processes = {}
    /\ spawned = 0

\* execute(args, commandKey): a key that is running resolves with '' at once,
\* else the key is added and the process spawned
Execute(c, key) ==
    /\ requests[c] # "waiting"
    /\ IF key # "none" /\ key \in execKeys
       THEN /\ requests' = [requests EXCEPT ![c] = "skipped"]
            /\ UNCHANGED <<execKeys, processes, spawned>>
       ELSE /\ spawned < MaxSpawns
            /\ execKeys' = IF key # "none" THEN execKeys \cup {key} ELSE execKeys
            /\ processes' = processes \cup
                 {[pid |-> spawned + 1, key |-> key, owner |-> c, state |-> "running"]}
            /\ spawned' = spawned + 1
            /\ requests' = [requests EXCEPT ![c] = "waiting"]
    /\ UNCHANGED ExecFrame

\* proc.on('close') of a process that ran: the key is deleted and the
\* promise settled by the exit code
ProcClosed(p, code) ==
    /\ p \in processes /\ p.state = "running"
    /\ processes' = processes \ {p}
    /\ execKeys' = IF p.key # "none" THEN execKeys \ {p.key} ELSE execKeys
    /\ requests' = [requests EXCEPT ![p.owner] = IF code = 0 THEN "resolved" ELSE "rejected"]
    /\ UNCHANGED <<spawned, ExecFrame>>

\* proc.on('error'): the process failed to start; the key is deleted and the
\* promise rejected
ProcError(p) ==
    /\ p \in processes /\ p.state = "running"
    /\ processes' = (processes \ {p}) \cup {[p EXCEPT !.state = "failed"]}
    /\ execKeys' = IF p.key # "none" THEN execKeys \ {p.key} ELSE execKeys
    /\ requests' = [requests EXCEPT ![p.owner] = "rejected"]
    /\ UNCHANGED <<spawned, ExecFrame>>

\* proc.on('close') of a process that failed to start: 'close' follows
\* 'error' once the streams are closed; the key is deleted again and the
\* second reject has no effect
ProcClosedAfterError(p) ==
    /\ p \in processes /\ p.state = "failed"
    /\ processes' = processes \ {p}
    /\ execKeys' = IF p.key # "none" THEN execKeys \ {p.key} ELSE execKeys
    /\ UNCHANGED <<requests, spawned, ExecFrame>>

NextExec ==
    \/ \E c \in Callers, key \in CommandKeys : Execute(c, key)
    \/ \E p \in processes, code \in {0, 1} : ProcClosed(p, code)
    \/ \E p \in processes : ProcError(p)
    \/ \E p \in processes : ProcClosedAfterError(p)

SpecExec == InitExec /\ [][NextExec]_vars

\* the processes that run under a key
RunningUnder(key) == {p \in processes : p.key = key /\ p.state = "running"}

\* C23: under every command key at most one process runs, the key is held
\* exactly while a process it guards runs, and a request with a key that is
\* held starts no process and ends without an error.
OneProcessPerKey ==
    \A key \in CommandKeys \ {"none"} :
        /\ Cardinality(RunningUnder(key)) <= 1
        /\ key \in execKeys <=> RunningUnder(key) # {}

----------------------------------------------------------------------------
(* Two async flows that change the profile store: each holds the profiles   *)
(* it read when it began, and later calls one mutation of the service.      *)

MutatingFlows == {"f1", "f2"}

\* the profile each flow works on
inputOf(f) == IF f = "f1" THEN BaseInput ELSE [BaseInput EXCEPT !.localPath = DirectoryB]

\* the store when the flows begin: both profiles saved at time 1
TwoProfiles == upsertProfile(upsertProfile(<<>>, inputOf("f1"), 1), inputOf("f2"), 1)

\* the mutations a flow may call on its profile
MutationsOf(f) ==
    {[kind |-> "upsert", input |-> [inputOf(f) EXCEPT !.name = <<"m">>], session |-> "none"],
     [kind |-> "upsert", input |-> [inputOf(f) EXCEPT !.mode = "two-way-safe"],
      session |-> "none"],
     [kind |-> "update", input |-> inputOf(f), session |-> "s1"],
     [kind |-> "update", input |-> inputOf(f), session |-> "s2"],
     [kind |-> "remove", input |-> inputOf(f), session |-> "none"]}

NotMutating == [pc |-> "idle", seen |-> <<>>, op |-> "none", overlapped |-> FALSE]

MutateFrame == <<mainVars, pathVars, fsVars, loadVars, sigVars, restoreVars, closeVars,
                 rateVars, execVars, application, resuming, lastVars>>

\* a list kept from the beginning of the flow
profilesForWriteKept(f) == mutating[f].seen

\* the list a mutation changes: listProfiles() called in the mutation itself
profilesForWrite(f) == listProfiles(persisted)

\* the id of the flow's profile, taken from the profiles it holds
profileIdOf(f) ==
    LET held == findByKey(mutating[f].seen,
                          getDeduplicationKey(normalizePath(inputOf(f).workspaceFolder),
                                              normalizePath(inputOf(f).localPath),
                                              inputOf(f).remotePath))
    IN  IF held = <<>> THEN <<"0">> ELSE held[1].id

\* the array a mutation hands to saveProfiles
mutated(f, op, now) ==
    IF op.kind = "upsert" THEN upsertProfile(profilesForWrite(f), op.input, now)
    ELSE IF op.kind = "update"
    THEN updateLastSessionIdentifier(profilesForWrite(f), profileIdOf(f), op.session, now)
    ELSE removeProfile(profilesForWrite(f), profileIdOf(f))

InitMutate ==
    /\ MainOff
    /\ pathIn = Off /\ pathOut = Off
    /\ fs = Off /\ fsPc = Off /\ fsJob = Off
    /\ LoadOff /\ SigOff /\ RestoreOff /\ CloseOff /\ RateOff /\ ExecOff
    /\ application = Off /\ resuming = Off /\ LastOff
    /\ persisted = saveProfiles(TwoProfiles)
    /\ clock = 1
    /\ storeOp = NoStoreOp
    /\ mutating = [f \in MutatingFlows |-> NotMutating]

\* the flow begins and reads the profiles
FlowBegins(f) ==
    /\ mutating[f].pc = "idle"
    /\ mutating' = [mutating EXCEPT ![f].pc = "began", ![f].seen = listProfiles(persisted)]
    /\ UNCHANGED <<persisted, clock, storeOp, MutateFrame>>

\* the flow calls the mutation: the list is read, changed and handed to
\* globalState.update in one turn
MutationCalled(f, op, now) ==
    /\ mutating[f].pc = "began"
    /\ clock' = now
    /\ persisted' = saveProfiles(mutated(f, op, now))
    /\ mutating' = [mutating EXCEPT
                      ![f].pc = "written", ![f].op = op,
                      ![f].overlapped = \E g \in MutatingFlows \ {f} :
                                           mutating[g].pc \in {"began", "written"}]
    /\ UNCHANGED <<storeOp, MutateFrame>>

\* the promise of globalState.update is settled
MutationSettled(f) ==
    /\ mutating[f].pc = "written"
    /\ mutating' = [mutating EXCEPT ![f].pc = "done"]
    /\ UNCHANGED <<persisted, clock, storeOp, MutateFrame>>

NextMutate ==
    \/ \E f \in MutatingFlows : FlowBegins(f)
    \/ \E f \in MutatingFlows, now \in {clock, clock + 1} :
         \E op \in MutationsOf(f) : MutationCalled(f, op, now)
    \/ \E f \in MutatingFlows : MutationSettled(f)

SpecMutate == InitMutate /\ [][NextMutate]_vars

\* the stored profiles of the flow's (workspaceFolder, localPath, remotePath)
StoredOf(f) ==
    LET profiles == listProfiles(persisted)
    IN  {profiles[i] : i \in {j \in DOMAIN profiles :
                                 TripleOf(profiles[j]) = InputTriple(inputOf(f))}}

\* what the flow's mutation was to do is in the store
EffectPresent(f) ==
    LET op == mutating[f].op
    IN  IF op.kind = "remove" THEN StoredOf(f) = {}
        ELSE /\ Cardinality(StoredOf(f)) = 1
             /\ \A profile \in StoredOf(f) :
                  IF op.kind = "update" THEN profile.lastSessionIdentifier = op.session
                  ELSE /\ profile.name = op.input.name
                       /\ op.input.mode # "undefined" => profile.mode = op.input.mode

\* C24: when two flows that overlap have each completed a mutation of their
\* own profile, the store holds the effects of both.
BothMutationsKept ==
    (\A f \in MutatingFlows : mutating[f].pc = "done") =>
        \A f \in MutatingFlows : EffectPresent(f)

\* both flows are done; the second called its mutation while the first had
\* begun and not yet called its own, an update and a removal
OverlappingMutationsWitness ==
    /\ \A f \in MutatingFlows : mutating[f].pc = "done"
    /\ mutating["f1"].overlapped /\ mutating["f2"].overlapped
    /\ mutating["f1"].op.kind = "update"
    /\ mutating["f2"].op.kind = "remove"

----------------------------------------------------------------------------
(* One application of a direction, from the resolution of the two conflict  *)
(* paths to the handled record: which operations were issued                *)

\* the most file or remote operations one application issues
MaxOperations == 3

\* the conflict roots applied: up to two characters
AppliedRoots == {r \in ConflictRoots : Len(r) <= 2}

ApplyInputs ==
    [localRoot : EndpointRoots,
     remote : [protocol : Protocols, path : EndpointRoots],
     conflictRoot : AppliedRoots,
     direction : Directions]

NotApplying(input) ==
    [pc |-> "idle", input |-> input, localPath |-> Unresolved,
     remotePath |-> Unresolved, issued |-> 0, handled |-> FALSE, error |-> "none"]

ApplyFrame == <<earlierVars, rateVars, execVars, mutating, resuming, lastVars>>

\* variant: operations begin when the local path is inside its root
pathsResolvedLocalOnly(localPath, remotePath) == localPath.ok

\* both resolutions returned: neither threw
pathsResolved(localPath, remotePath) == localPath.ok /\ remotePath.ok

\* the error the application ends with before any operation, "none" if
\* operations begin
refusal(input, localPath, remotePath) ==
    IF ~pathsResolved(localPath, remotePath)
    THEN IF ~localPath.ok THEN localPath.error ELSE remotePath.error
    ELSE IF input.remote.protocol \notin {"local", "ssh"} THEN "docker-not-supported"
    ELSE "none"

\* copyOrDeleteLocalPath returns at once for two equal paths
nothingToCopy(input, localPath, remotePath) ==
    input.remote.protocol = "local" /\ localPath.path = remotePath.path

InitApply ==
    /\ EarlierOff /\ RateOff /\ ExecOff /\ mutating = Off /\ resuming = Off
    /\ LastOff
    /\ \E input \in ApplyInputs : application = NotApplying(input)

\* applyConflictDirection up to its first await
ApplyConflictDirection ==
    /\ application.pc = "idle"
    /\ LET input == application.input
           localPath == resolveLocalConflictPath(input.localRoot, input.conflictRoot)
           remotePath == IF localPath.ok
                         THEN resolveEndpointConflictPath(input.remote, input.conflictRoot)
                         ELSE Unresolved
           error == refusal(input, localPath, remotePath)
       IN  application' = [application EXCEPT
                          !.localPath = localPath,
                          !.remotePath = remotePath,
                          !.error = error,
                          !.pc = IF error # "none" THEN "failed"
                                 ELSE IF nothingToCopy(input, localPath, remotePath)
                                 THEN "applied"
                                 ELSE "operating"]
    /\ UNCHANGED ApplyFrame

\* one stat, rm, mkdir, copy or ssh/scp command is issued and ends
OperationIssued(ok, last) ==
    /\ application.pc = "operating"
    /\ application.issued < MaxOperations
    /\ application' = [application EXCEPT
                      !.issued = @ + 1,
                      !.error = IF ok THEN "none" ELSE "operation-failed",
                      !.pc = IF ~ok THEN "failed"
                             ELSE IF last \/ application.issued + 1 = MaxOperations
                             THEN "applied"
                             ELSE "operating"]
    /\ UNCHANGED ApplyFrame

\* markConflictHandled after the awaited application
ConflictMarkedHandled ==
    /\ application.pc = "applied"
    /\ application' = [application EXCEPT !.handled = TRUE, !.pc = "done"]
    /\ UNCHANGED ApplyFrame

NextApply ==
    \/ ApplyConflictDirection
    \/ \E ok \in BOOLEAN, last \in BOOLEAN : OperationIssued(ok, last)
    \/ ConflictMarkedHandled

SpecApply == InitApply /\ [][NextApply]_vars

\* the conflict path of one side leaves the root of that side
LocalEscapes ==
    ~resolveLocalConflictPath(application.input.localRoot, application.input.conflictRoot).ok
RemoteEscapes ==
    ~resolveEndpointConflictPath(application.input.remote, application.input.conflictRoot).ok

\* C25: when the local or the remote conflict path fails its check, no file
\* or remote operation has been issued and no handled record is written; an
\* operation is issued only with both paths resolved.
ChecksBeforeOperations ==
    /\ (LocalEscapes \/ RemoteEscapes) =>
           /\ application.issued = 0
           /\ ~application.handled
           /\ application.pc \in {"idle", "failed"}
    /\ application.issued > 0 => application.localPath.ok /\ application.remotePath.ok

\* the local path is inside its root, the remote path is not, and the
\* application has ended with the remote path-escape error
RemoteCheckFailedWitness ==
    /\ ~LocalEscapes /\ RemoteEscapes
    /\ application.pc = "failed"
    /\ application.error = "escapes-remote-root"
    /\ application.issued = 0

----------------------------------------------------------------------------
(* Auto-resume of the paused sessions of a workspace folder.  A path is the *)
(* sequence of its segments.                                                *)

\* autoResumePausedSessionsForWorkspace: resumePausedSessionWithRetry(session, 3)
ResumeRetries == 3

\* the folder that was opened
OpenedFolder == <<"w", "p">>

\* the sessions of the engine in the order of the list
ResumeOrder == <<"r1", "r2", "r3">>
ResumeIds == {ResumeOrder[i] : i \in DOMAIN ResumeOrder}

\* a session without a local endpoint
NoLocalPath == <<"none">>

\* local paths: the folder, below it, above it, beside it, none
LocalPaths == {<<"w", "p">>, <<"w", "p", "x">>, <<"w">>, <<"w", "q">>, NoLocalPath}

ResumeFrame == <<earlierVars, rateVars, execVars, mutating, application, lastVars>>

\* variant: only a session at or below the folder is taken
isSessionInWorkspaceFolderBelow(session, workspaceFolderPath) ==
    /\ session.localPath # NoLocalPath
    /\ isSameOrSubPath(session.localPath, workspaceFolderPath)

isSessionInWorkspaceFolder(session, workspaceFolderPath) ==
    /\ session.localPath # NoLocalPath
    /\ isPathRelatedToWorkspaceFolder(session.localPath, workspaceFolderPath)

\* sessions.filter(...) of autoResumePausedSessionsForWorkspace
pausedSessionsOf(list, all, workspaceFolderPath) ==
    SelectSeq(list, LAMBDA id : /\ all[id].paused
                                /\ isSessionInWorkspaceFolder(all[id], workspaceFolderPath))

InitResume ==
    /\ EarlierOff /\ RateOff /\ ExecOff /\ mutating = Off /\ application = Off
    /\ LastOff
    /\ \E all \in [ResumeIds -> [paused : BOOLEAN, localPath : LocalPaths]] :
         resuming = [pc |-> "idle", engine |-> all, list |-> <<>>,
                     pausedSessions |-> <<>>, idx |-> 0, attempt |-> 0,
                     attempts |-> [id \in ResumeIds |-> 0],
                     outcome |-> [id \in ResumeIds |-> "none"]]

\* the for-of loop goes to the session after idx, or ends
nextSession(r) ==
    IF r.idx < Len(r.pausedSessions)
    THEN [r EXCEPT !.pc = "resume", !.idx = @ + 1, !.attempt = 1]
    ELSE [r EXCEPT !.pc = "done"]

\* listSessions has returned: the sessions of the engine, or nothing when
\* another list request was in flight
AutoResumeListed(skipped) ==
    /\ resuming.pc = "idle"
    /\ LET list == IF skipped THEN <<>> ELSE ResumeOrder
           paused == pausedSessionsOf(list, resuming.engine, OpenedFolder)
       IN  resuming' = nextSession([resuming EXCEPT !.list = list,
                                                    !.pausedSessions = paused])
    /\ UNCHANGED ResumeFrame

\* resumeSession of the attempt has returned or thrown
ResumeAttempted(ok) ==
    /\ resuming.pc = "resume"
    /\ LET id == resuming.pausedSessions[resuming.idx]
           r1 == [resuming EXCEPT !.attempts[id] = @ + 1]
       IN  resuming' =
             IF ok
             THEN nextSession([r1 EXCEPT !.engine[id].paused = FALSE,
                                         !.outcome[id] = "resumed"])
             ELSE IF resuming.attempt < ResumeRetries
             THEN [r1 EXCEPT !.pc = "delay"]
             ELSE nextSession([r1 EXCEPT !.outcome[id] = "exhausted"])
    /\ UNCHANGED ResumeFrame

\* the delay after a failed attempt has elapsed
ResumeDelayed ==
    /\ resuming.pc = "delay"
    /\ resuming' = [resuming EXCEPT !.pc = "resume", !.attempt = @ + 1]
    /\ UNCHANGED ResumeFrame

NextResume ==
    \/ \E skipped \in BOOLEAN : AutoResumeListed(skipped)
    \/ \E ok \in BOOLEAN : ResumeAttempted(ok)
    \/ ResumeDelayed

SpecResume == InitResume /\ [][NextResume]_vars

\* the listed session was paused when listed and its local path is the
\* folder, below the folder or above it
DueForResume(id) ==
    LET localPath == resuming.engine[id].localPath
    IN  /\ \E i \in DOMAIN resuming.list : resuming.list[i] = id
        /\ resuming.engine[id].paused \/ resuming.outcome[id] = "resumed"
        /\ localPath # NoLocalPath
        /\ \/ localPath = OpenedFolder
           \/ IsPrefix(OpenedFolder, localPath)
           \/ IsPrefix(localPath, OpenedFolder)

----------------------------------------------------------------------------
(* Profile ids under a workspace folder with a long path *)

\* a folder whose path is as long as the text that enters the id
LongFolder == <<"/", "h", "o", "m", "e", "/", "u", "/", "p", "r", "o", "j">>

\* upserts for the directories a and b of the short and of the long folder
IdInputs ==
    {[BaseInput EXCEPT !.workspaceFolder = folder,
                       !.localPath = folder \o <<"/", directory>>,
                       !.name = <<name>>] :
        folder \in {FolderW, LongFolder}, directory \in {"a", "b"}, name \in {"n", "m"}}

NextIds == \E input \in IdInputs, now \in {clock, clock + 1} : UpsertProfile(input, now)

SpecIds == InitStore /\ [][NextIds]_vars

\* C31: the id an upsert gives its profile is not the id of a stored profile
\* of another (workspaceFolder, localPath, remotePath), and the upsert leaves
\* every stored profile of another triple in the store as it was.
IdsApartByKey ==
    storeOp.op = "upsert" =>
        \A i \in DOMAIN storeOp.before :
            TripleOf(storeOp.before[i]) # InputTriple(storeOp.input) =>
                /\ storeOp.before[i].id # storeOp.id
                /\ \E j \in DOMAIN listProfiles(persisted) :
                      listProfiles(persisted)[j] = storeOp.before[i]

\* two directories of the short folder saved in the same millisecond
SameMillisecondShortFolder ==
    /\ storeOp.op = "upsert"
    /\ storeOp.input.workspaceFolder = FolderW
    /\ Len(listProfiles(persisted)) = 2
    /\ listProfiles(persisted)[1].updatedAt = listProfiles(persisted)[2].updatedAt

----------------------------------------------------------------------------
(* The endpoint match of restore on one session and one profile.  Users and *)
(* hosts are single characters, paths two.                                  *)

midVars == <<rateVars, execVars, mutating, application, resuming>>
MidOff ==
    /\ RateOff /\ ExecOff /\ mutating = Off /\ application = Off /\ resuming = Off

MatchUsers == {<<"u">>, <<"v">>}
MatchHosts == {<<"h">>, <<"g">>}
MatchPaths == {<<"/", "p">>, <<"/", "q">>}
MatchDirectories == {<<"/", "a">>, <<"/", "b">>}

\* the remote endpoint of a session: ssh with or without a user, or a container
MatchEndpoints ==
    [protocol : {"ssh", "docker"}, user : MatchUsers \cup {<<>>},
     host : MatchHosts, path : MatchPaths]

\* the remote string of a profile, by its parts
RemoteForms == {"user@host:path", "host:path", "docker://container/path"}
MatchRemotes == [form : RemoteForms, user : MatchUsers, host : MatchHosts, path : MatchPaths]

\* the string the user wrote
remoteString(remote) ==
    IF remote.form = "user@host:path"
    THEN remote.user \o <<"@">> \o remote.host \o <<":">> \o remote.path
    ELSE IF remote.form = "host:path" THEN remote.host \o <<":">> \o remote.path
    ELSE <<"docker://">> \o remote.host \o remote.path

\* the session as the list gives it, the local endpoint as alpha or as beta
matchSession(localPath, endpoint, localIsAlpha) ==
    [live |-> TRUE,
     alpha |-> IF localIsAlpha THEN localEndpoint(localPath) ELSE endpoint,
     beta |-> IF localIsAlpha THEN endpoint ELSE localEndpoint(localPath),
     paused |-> FALSE, status |-> "watching", mode |-> "two-way-safe"]

MatchFrame == <<earlierVars, midVars, editing, statusBar>>

InitMatch ==
    /\ EarlierOff /\ MidOff /\ editing = Off /\ statusBar = Off
    /\ matchIn \in [sessionPath : MatchDirectories, endpoint : MatchEndpoints,
                    localIsAlpha : BOOLEAN,
                    localPath : MatchDirectories, remote : MatchRemotes]
    /\ matchOut = "pending"

\* the test of findSessionByEndpoints on the session
MatchSession ==
    /\ matchOut = "pending"
    /\ matchOut' = IF matchesEndpoints(matchSession(matchIn.sessionPath,
                                                    matchIn.endpoint,
                                                    matchIn.localIsAlpha),
                                       matchIn.localPath, remoteString(matchIn.remote))
                   THEN "accepted" ELSE "refused"
    /\ UNCHANGED <<matchIn, MatchFrame>>

NextMatch == MatchSession

SpecMatch == InitMatch /\ [][NextMatch]_vars

\* same path and same host or container
SamePlace(remote, endpoint) ==
    remote.path = endpoint.path /\ remote.host = endpoint.host

\* the string and the endpoint both name a user, and not the same one
UsersDiffer(remote, endpoint) ==
    /\ remote.form = "user@host:path"
    /\ endpoint.user # <<>>
    /\ remote.user # endpoint.user

\* C32: a session is accepted only if its local path is the profile's and its
\* remote endpoint has the path and the host or container of the profile's
\* remote string, and the user of that string when both name one.
MatchMeansSameEndpoint ==
    matchOut = "accepted" =>
        /\ matchIn.sessionPath = matchIn.localPath
        /\ SamePlace(matchIn.remote, matchIn.endpoint)
        /\ ~UsersDiffer(matchIn.remote, matchIn.endpoint)

\* an accepted session has the local path, the remote path and the host of
\* the profile
MatchMeansSamePlace ==
    matchOut = "accepted" =>
        /\ matchIn.sessionPath = matchIn.localPath
        /\ SamePlace(matchIn.remote, matchIn.endpoint)

----------------------------------------------------------------------------
(* Editing the configuration of a session: recreateSession and the saved    *)
(* profile                                                                  *)

\* the identifier of the edited session and the one the engine gives next
OldIdentifier == "s1"
NewIdentifier == "s2"

\* the saved profiles when the editor opens: none, the profile of the
\* edited session, or that profile with an outdated identifier
SavedBeforeEdit ==
    {<<>>,
     upsertProfile(<<>>, [BaseInput EXCEPT !.lastSessionIdentifier = OldIdentifier], 1),
     upsertProfile(<<>>, [BaseInput EXCEPT !.lastSessionIdentifier = "s0"], 1)}

\* what the editor returns: the directory, the name and the mode
EditedConfigs ==
    {[BaseInput EXCEPT !.localPath = localPath, !.name = name, !.mode = mode] :
        localPath \in {DirectoryA, DirectoryB}, name \in {<<"n">>, <<"m">>},
        mode \in {"two-way-safe", "one-way-safe"}}

EditFrame == <<earlierVars, midVars, matchVars, statusBar>>

\* variant: createSession is called whatever terminateSession did
afterTerminateAlways(ok) == "create"

\* recreateSession: `await this.terminateSession(identifier)` throws or goes on
afterTerminate(ok) == IF ok THEN "create" ELSE "failed"

InitEdit ==
    /\ EarlierOff /\ MidOff /\ MatchOff /\ statusBar = Off
    /\ \E before \in SavedBeforeEdit, config \in EditedConfigs, enabled \in BOOLEAN :
         editing = [pc |-> "confirm", config |-> config,
                    autoSaveConnectionProfiles |-> enabled,
                    before |-> before, profiles |-> before,
                    live |-> {OldIdentifier}, created |-> "none",
                    terminated |-> FALSE, calls |-> <<>>]

\* the dialog 'Recreate Session' is answered
EditConfirmed(yes) ==
    /\ editing.pc = "confirm"
    /\ editing' = [editing EXCEPT
                     !.pc = IF yes THEN "terminate" ELSE "done",
                     !.calls = IF yes THEN Append(@, "terminate") ELSE @]
    /\ UNCHANGED EditFrame

\* terminateSession of recreateSession has ended
EditTerminated(ok) ==
    /\ editing.pc = "terminate"
    /\ editing' = [editing EXCEPT
                     !.pc = afterTerminate(ok),
                     !.terminated = ok,
                     !.live = IF ok THEN @ \ {OldIdentifier} ELSE @,
                     !.calls = IF afterTerminate(ok) = "create"
                               THEN Append(@, "create") ELSE @]
    /\ UNCHANGED EditFrame

\* createSession of recreateSession has ended; on success
\* maybeSaveConnectionProfile upserts the profile
EditCreated(ok, now) ==
    /\ editing.pc = "create"
    /\ editing' =
         IF ~ok THEN [editing EXCEPT !.pc = "failed"]
         ELSE [editing EXCEPT
                 !.pc = "refresh",
                 !.live = @ \cup {NewIdentifier},
                 !.created = NewIdentifier,
                 !.calls = IF editing.autoSaveConnectionProfiles
                           THEN Append(@, "upsert") ELSE @,
                 !.profiles =
                     IF editing.autoSaveConnectionProfiles
                     THEN upsertProfile(@, [editing.config EXCEPT
                                              !.lastSessionIdentifier = NewIdentifier],
                                        now)
                     ELSE @]
    /\ UNCHANGED EditFrame

\* the closing refresh, or the error message
EditEnded ==
    /\ editing.pc \in {"refresh", "failed"}
    /\ editing' = [editing EXCEPT !.pc = "done"]
    /\ UNCHANGED EditFrame

NextEdit ==
    \/ \E yes \in BOOLEAN : EditConfirmed(yes)
    \/ \E ok \in BOOLEAN : EditTerminated(ok)
    \/ \E ok \in BOOLEAN, now \in {1, 2} : EditCreated(ok, now)
    \/ EditEnded

SpecEdit == InitEdit /\ [][NextEdit]_vars

Called(name) == \E i \in DOMAIN editing.calls : editing.calls[i] = name

\* C33: createSession is called only after terminateSession of the old
\* identifier succeeded; when terminate failed no session is created and the
\* saved profiles are as before; the saved profiles change only after the
\* create succeeded, and then the profile of the edited configuration holds
\* the new identifier.
TerminateThenRecreate ==
    /\ Called("create") => editing.terminated /\ OldIdentifier \notin editing.live
    /\ (Called("terminate") /\ editing.pc \notin {"terminate"} /\ ~editing.terminated) =>
          /\ ~Called("create")
          /\ editing.created = "none"
          /\ NewIdentifier \notin editing.live
          /\ editing.profiles = editing.before
    /\ editing.profiles # editing.before =>
          /\ editing.created = NewIdentifier
          /\ \E i \in DOMAIN editing.profiles :
                /\ TripleOf(editing.profiles[i]) = InputTriple(editing.config)
                /\ editing.profiles[i].lastSessionIdentifier = NewIdentifier
    /\ \A i \in DOMAIN editing.profiles :
          editing.profiles[i].lastSessionIdentifier = NewIdentifier =>
              editing.created = NewIdentifier

\* terminate failed: the old session lives, the profile still names it
TerminateFailedWitness ==
    /\ editing.pc = "done"
    /\ Called("terminate") /\ ~editing.terminated
    /\ editing.live = {OldIdentifier}
    /\ editing.profiles # <<>>
    /\ editing.profiles[1].lastSessionIdentifier = OldIdentifier

----------------------------------------------------------------------------
(* StatusBarManager: the monitors of the sessions of the current workspace *)

\* the monitor processes explored
MaxMonitors == 3

MonitoredIds == {"s1", "s2"}

\* the order of the sessions in a list
MonitoredOrder == <<"s1", "s2">>

\* statusBar.monitors gives the process of the monitor held for a session,
\* 0 when the map has no entry for it

MonitorFrame == <<earlierVars, midVars, matchVars, editing>>

\* monitor.stop(): kill() of a live process succeeds, or fails and emits
\* 'error' before it returns; kill() of a dead process does nothing
stopped(procs, m, killFails) ==
    [procs EXCEPT ![m].state =
        IF @ = "running" THEN (IF killFails THEN "unkillable" ELSE "stopped")
        ELSE "stopped"]

\* stopWorkspaceMonitoring
stopWorkspaceMonitoring(b, killFail) ==
    LET held == {id \in MonitoredIds : b.monitors[id] # 0}
        Stop[ids \in SUBSET held] ==
            IF ids = {} THEN b.procs
            ELSE LET id == CHOOSE x \in ids : TRUE
                 IN  stopped(Stop[ids \ {id}], b.monitors[id], id \in killFail)
    IN  [b EXCEPT !.procs = Stop[held],
                  !.monitors = [id \in MonitoredIds |-> 0],
                  !.workspaceSessionIds = {}]

\* variant: a monitor is started for every session of the list
alreadyMonitoredNever(b, id) == FALSE

\* this.monitors.has(session.identifier)
alreadyMonitored(b, id) == b.monitors[id] # 0

\* the second loop of ensureWorkspaceMonitoring, from the i-th session on
RECURSIVE startMonitors(_, _, _, _)
startMonitors(b, i, target, spawnFail) ==
    IF i > Len(MonitoredOrder) THEN b
    ELSE LET id == MonitoredOrder[i]
         IN  IF id \notin target \/ alreadyMonitored(b, id)
             THEN startMonitors(b, i + 1, target, spawnFail)
             ELSE startMonitors(
                      [b EXCEPT !.procs =
                                   Append(@, [id |-> id,
                                              state |-> IF id \in spawnFail
                                                        THEN "failed" ELSE "running"]),
                                !.monitors[id] = Len(b.procs) + 1],
                      i + 1, target, spawnFail)

\* ensureWorkspaceMonitoring
ensureWorkspaceMonitoring(b, target, killFail, spawnFail) ==
    LET dropped == {id \in MonitoredIds : b.monitors[id] # 0 /\ id \notin target}
        Stop[ids \in SUBSET dropped] ==
            IF ids = {} THEN b.procs
            ELSE LET id == CHOOSE x \in ids : TRUE
                 IN  stopped(Stop[ids \ {id}], b.monitors[id], id \in killFail)
        kept == [b EXCEPT !.procs = Stop[dropped],
                          !.monitors = [id \in MonitoredIds |->
                                           IF id \in dropped THEN 0 ELSE @[id]]]
    IN  [startMonitors(kept, 1, target, spawnFail)
             EXCEPT !.workspaceSessionIds = target]

\* a spawn has failed and its 'error' event is due on the next tick
ErrorDue == \E m \in DOMAIN statusBar.procs : statusBar.procs[m].state = "failed"

InitMonitor ==
    /\ EarlierOff /\ MidOff /\ MatchOff /\ editing = Off
    /\ statusBar = [enabled |-> TRUE,
                    monitors |-> [id \in MonitoredIds |-> 0],
                    procs |-> <<>>,
                    workspaceSessionIds |-> {},
                    last |-> {},
                    updated |-> FALSE]

\* updateStatus(sessions); workspace are the sessions of the list that
\* isSessionInCurrentWorkspace keeps
UpdateStatus(listed, workspace, killFail, spawnFail) ==
    /\ ~ErrorDue
    /\ workspace \subseteq listed
    /\ LET b == [statusBar EXCEPT !.last = workspace, !.updated = TRUE]
           after == IF ~b.enabled THEN b
                    ELSE IF listed = {} THEN stopWorkspaceMonitoring(b, killFail)
                    ELSE IF workspace # {}
                    THEN ensureWorkspaceMonitoring(b, workspace, killFail, spawnFail)
                    ELSE stopWorkspaceMonitoring(b, killFail)
       IN  /\ Len(after.procs) <= MaxMonitors
           /\ statusBar' = after
    /\ UNCHANGED MonitorFrame

\* updateConfig() after mutagen.showStatusBar was read
UpdateConfig(enabled, killFail) ==
    /\ ~ErrorDue
    /\ statusBar' = IF enabled THEN [statusBar EXCEPT !.enabled = TRUE]
                    ELSE stopWorkspaceMonitoring(
                             [statusBar EXCEPT !.enabled = FALSE], killFail)
    /\ UNCHANGED MonitorFrame

\* the 'error' event of a failed spawn: onError deletes the session's entry
MonitorErrored(m) ==
    /\ m \in DOMAIN statusBar.procs
    /\ statusBar.procs[m].state = "failed"
    /\ statusBar' = [statusBar EXCEPT !.procs[m].state = "error",
                                      !.monitors[statusBar.procs[m].id] = 0]
    /\ UNCHANGED MonitorFrame

\* the monitor process ends by itself: the 'close' handler only logs
MonitorClosed(m) ==
    /\ ~ErrorDue
    /\ m \in DOMAIN statusBar.procs
    /\ statusBar.procs[m].state = "running"
    /\ statusBar' = [statusBar EXCEPT !.procs[m].state = "closed"]
    /\ UNCHANGED MonitorFrame

NextMonitor ==
    \/ \E listed \in SUBSET MonitoredIds, workspace \in SUBSET MonitoredIds,
          killFail \in SUBSET MonitoredIds, spawnFail \in SUBSET MonitoredIds :
          UpdateStatus(listed, workspace, killFail, spawnFail)
    \/ \E enabled \in BOOLEAN, killFail \in SUBSET MonitoredIds :
          UpdateConfig(enabled, killFail)
    \/ \E m \in 1..MaxMonitors : MonitorErrored(m)
    \/ \E m \in 1..MaxMonitors : MonitorClosed(m)

SpecMonitor == InitMonitor /\ [][NextMonitor]_vars

\* the monitors the map holds
HeldMonitors == {statusBar.monitors[id] : id \in MonitoredIds} \ {0}

\* C38: per session identifier the status bar holds at most one monitor,
\* and of the monitors of a session that were neither stopped nor reported
\* an error there is at most one; a held monitor is the monitor of a
\* session of the workspace set of the last status update;
\* no monitor is held while the status bar is disabled or after an update
\* without a workspace session; a monitor that was started and is not held
\* has been stopped or has reported an error.
MonitorsAccounted ==
    /\ \A id \in MonitoredIds :
         /\ statusBar.monitors[id] # 0 =>
               /\ statusBar.monitors[id] \in DOMAIN statusBar.procs
               /\ statusBar.procs[statusBar.monitors[id]].id = id
               /\ id \in statusBar.last
         /\ Cardinality({m \in DOMAIN statusBar.procs :
                            /\ statusBar.procs[m].id = id
                            /\ statusBar.procs[m].state \in {"running", "failed", "closed"}})
              <= 1
    /\ ~statusBar.enabled => HeldMonitors = {}
    /\ statusBar.updated /\ statusBar.last = {} => HeldMonitors = {}
    /\ \A m \in DOMAIN statusBar.procs :
         m \notin HeldMonitors =>
             statusBar.procs[m].state \in {"stopped", "unkillable", "error"}

\* a session left the workspace set and came back: its first monitor was
\* stopped and a second one is held and running
MonitorRestartedWitness ==
    \E m1, m2 \in DOMAIN statusBar.procs :
        /\ m1 < m2
        /\ statusBar.procs[m1].id = "s1" /\ statusBar.procs[m2].id = "s1"
        /\ statusBar.procs[m1].state = "stopped"
        /\ statusBar.procs[m2].state = "running"
        /\ statusBar.monitors["s1"] = m2
        /\ statusBar.monitors["s2"] # 0

----------------------------------------------------------------------------
(* An upsert and the list that follows it *)

FilesystemRoot == <<"/">>

\* the inputs: a directory of the folder /w, and the filesystem root opened
\* as the folder, each with a name, with a name of blanks and with the
\* empty name
RoundTripInputs ==
    {[BaseInput EXCEPT !.name = name, !.localPath = localPath,
                       !.workspaceFolder = IF localPath = FilesystemRoot
                                           THEN FilesystemRoot ELSE FolderW] :
        name \in {<<"n">>, <<" ">>, <<>>},
        localPath \in {DirectoryA, FilesystemRoot}}

NextRoundTrip ==
    \E input \in RoundTripInputs, now \in {clock, clock + 1} : UpsertProfile(input, now)

SpecRoundTrip == InitStore /\ [][NextRoundTrip]_vars

\* getProfileById
getProfileById(rawValue, id) ==
    SelectSeq(listProfiles(rawValue), LAMBDA profile : profile.id = id)

\* the profile the last upsert returned is listed and found by its id, with
\* the key fields of the input
ReturnedIsListed ==
    LET byId == getProfileById(persisted, storeOp.id)
    IN  /\ byId # <<>>
        /\ TripleOf(byId[1]) = InputTriple(storeOp.input)

\* the last upsert had a name to store
NameGiven ==
    \/ trim(storeOp.input.name) # <<>>
    \/ basename(normalizePath(storeOp.input.localPath)) # <<>>

\* C39: the profile an upsert returned is returned by the next list and by
\* getProfileById with the returned id, with the same workspace folder,
\* local path and remote path, whatever the input was.
UpsertedIsListed == storeOp.op = "upsert" => ReturnedIsListed

\* the same for the upserts whose input gives a name or a local path below
\* the filesystem root
NamedUpsertIsListed == storeOp.op = "upsert" /\ NameGiven => ReturnedIsListed

\* the filesystem root was saved with a blank name: the stored array holds
\* the record and the list does not
RootProfileLost ==
    /\ storeOp.op = "upsert"
    /\ storeOp.input.localPath = FilesystemRoot
    /\ ~NameGiven
    /\ \E i \in DOMAIN persisted.items : persisted.items[i].values.id = storeOp.id
    /\ getProfileById(persisted, storeOp.id) = <<>>

----------------------------------------------------------------------------
(* The snapshot under the auto-refresh timer.  The engine is changed from   *)
(* outside a bounded number of times; the timer and the list requests of   *)
(* the other flows go on for ever.                                          *)

\* a session is created or terminated outside the extension
EngineSessionChanged(s) ==
    /\ steps < MaxEvents
    /\ steps' = steps + 1
    /\ engine' = [engine EXCEPT ![s] = [alive |-> ~engine[s].alive,
                                        conflicts |-> NoConflicts]]
    /\ UNCHANGED <<created, remoteProtocol, sessions, isLoading, lastError,
                   runningCommands, handledConflictsBySession, cmd, pollPc, bgPc,
                   report, applied, pathVars, fsVars, laterVars>>

\* listSessions called by a restore or auto-resume flow, at any time
OtherFlowLists ==
    /\ bgPc = "idle"
    /\ "list" \notin runningCommands
    /\ bgPc' = "list"
    /\ runningCommands' = runningCommands \cup {"list"}
    /\ UNCHANGED <<engine, created, remoteProtocol, sessions, isLoading, lastError,
                   handledConflictsBySession, cmd, pollPc, report, applied,
                   steps, pathVars, fsVars, laterVars>>

NextPoll ==
    \/ \E s \in Sessions, r \in Roots : \E c \in ConflictsAt(r) : EngineReport(s, r, c)
    \/ \E s \in Sessions, r \in Roots : EngineRetract(s, r)
    \/ \E s \in Sessions : EngineSessionChanged(s)
    \/ PollStart
    \/ \E ok \in BOOLEAN : PollListed(ok)
    \/ PollDeduplicated
    \/ OtherFlowLists
    \/ BgListed

SpecPoll == Init /\ [][NextPoll]_vars

\* setInterval calls loadSessions again and again, and a load that has
\* started comes to its end
SpecPollFair ==
    /\ SpecPoll
    /\ WF_vars(PollStart)
    /\ WF_vars(\E ok \in BOOLEAN : PollListed(ok))
    /\ WF_vars(PollDeduplicated)

\* the snapshot has the identifiers of the engine's sessions and, for each,
\* the conflict fingerprint the engine reports
SnapshotAgrees ==
    \A s \in Sessions :
        /\ sessions[s].present <=> engine[s].alive
        /\ engine[s].alive =>
              getConflictFingerprint(sessions[s])
                = getConflictFingerprint([present |-> TRUE,
                                          conflicts |-> engine[s].conflicts])

EngineSettles == <>[][engine' = engine]_vars

ListsSucceed == <>[](lastError # "error")

\* from some point on no load is answered by execute without a request
LoadsMakeTheirRequest == <>[](pollPc # "dup")

----------------------------------------------------------------------------
(* Properties of the conflict engine, checked under Spec *)

RefreshPcs == {"rf_skip", "rf_dup", "rf_list"}

\* no command, poll or background list request is in flight
Quiescent == cmd.pc = "idle" /\ pollPc = "idle" /\ bgPc = "idle"

ExclusionStep ==
    LET records == handledConflictsBySession[cmd.sid]
        excluded(c) ==
            /\ records[c.root] # NoRecord
            /\ records[c.root].signature = buildConflictSignature(c)
        fetching == cmd.op = "acceptAll" /\ cmd.pc = "get"
        q == cmd'.conflicts
        p == cmd'.pending
    IN  /\ (fetching /\ cmd'.pc = "confirm") =>
              /\ \A i \in DOMAIN q :
                     excluded(q[i]) <=> ~(\E j \in DOMAIN p : p[j] = q[i])
              /\ \A j \in DOMAIN p : \E i \in DOMAIN q : p[j] = q[i]
              /\ \A j, k \in DOMAIN p :
                     j < k => \E i, l \in DOMAIN q :
                                 i < l /\ q[i] = p[j] /\ q[l] = p[k]
              /\ cmd'.excludedCount = Cardinality({i \in DOMAIN q : excluded(q[i])})
        /\ (fetching /\ report'.note = "no-pending") =>
              /\ engine[cmd.sid].conflicts # NoConflicts
              /\ \A r \in Roots :
                     engine[cmd.sid].conflicts[r] # NoConflict =>
                         excluded(engine[cmd.sid].conflicts[r])
        /\ (fetching /\ cmd'.pc \in RefreshPcs) =>
              engine[cmd.sid].conflicts = NoConflicts
        /\ (cmd.op = "acceptAll" /\ cmd.pc = "apply" /\ cmd'.pc # "apply") =>
              cmd'.attempted = RootsOf(cmd.pending)

\* C1: accept-all excludes a fetched conflict exactly when the session has a
\* handled record at the conflict's root whose signature equals the
\* conflict's signature; every other conflict, in the fetched order, is
\* pending, and a confirmed batch has attempted every pending conflict when
\* its loop ends.
ExclusionIffHandled == [][ExclusionStep]_vars

\* a batch that excluded one conflict and attempted another
ExclusionWitness ==
    /\ cmd.op = "acceptAll"
    /\ cmd.pc \in RefreshPcs \cup {"reset"}
    /\ cmd.excludedCount = 1
    /\ Len(cmd.attempted) = 1

\* C2: an accept-all issues no copy or delete for a conflict that an accept
\* applied successfully and that the engine has reported with the same
\* signature ever since.
HandledNotReapplied ==
    cmd.op = "acceptAll" =>
        \A i \in DOMAIN cmd.touched : cmd.touched[i] \notin cmd.appliedBefore

\* C3: in accept-all, reset is invoked once the loop has ended exactly when
\* something was attempted and nothing failed, and at most once; flush is
\* invoked at most once, only after reset succeeded, and always then.
ConvergenceIffAllSucceeded ==
    cmd.op = "acceptAll" =>
        /\ cmd.resetCalls \in {0, 1}
        /\ cmd.flushCalls \in {0, 1}
        /\ cmd.resetCalls = 1 <=>
              /\ cmd.pc \in RefreshPcs \cup {"reset", "flush"}
              /\ cmd.attempted # <<>>
              /\ cmd.failed = <<>>
        /\ cmd.flushCalls = 1 <=> cmd.resetOk
        /\ cmd.resetOk => cmd.resetCalls = 1
        /\ cmd.converged => cmd.flushCalls = 1

\* a batch whose two items succeeded and whose reset and flush were invoked
ConvergenceWitness ==
    /\ cmd.op = "acceptAll"
    /\ cmd.pc \in RefreshPcs
    /\ cmd.successCount = 2
    /\ cmd.resetCalls = 1
    /\ cmd.flushCalls = 1

\* C4: after the confirmation the batch attempts the pending conflicts one
\* by one in list order, each once, whether or not earlier ones failed.
BatchAttemptsEveryPending ==
    (cmd.op = "acceptAll" /\ cmd.pc # "get") =>
        LET done == IF cmd.pc = "confirm" THEN 0
                    ELSE IF cmd.pc = "apply" THEN cmd.idx - 1
                    ELSE Len(cmd.pending)
        IN  /\ cmd.attempted = [i \in 1..done |-> cmd.pending[i].root]
            /\ \A i, j \in DOMAIN cmd.attempted :
                   cmd.attempted[i] = cmd.attempted[j] => i = j
            /\ cmd.successCount + Len(cmd.failed) = done
            /\ \A i \in DOMAIN cmd.failed :
                   \E j \in DOMAIN cmd.attempted : cmd.attempted[j] = cmd.failed[i]

\* the first item failed and the second was still attempted, and succeeded
BatchContinuesWitness ==
    /\ cmd.op = "acceptAll"
    /\ cmd.pc \in RefreshPcs
    /\ Len(cmd.pending) = 2
    /\ cmd.failed = <<cmd.pending[1].root>>
    /\ cmd.successCount = 1

RecordStep ==
    LET applying == cmd.pc = "apply"
        conflict == cmd.pending[cmd.idx]
        succeeded == cmd'.successCount = cmd.successCount + 1
    IN  /\ \A s \in Sessions, r \in Roots :
               (/\ handledConflictsBySession'[s][r] # handledConflictsBySession[s][r]
                /\ handledConflictsBySession'[s][r] # NoRecord)
               => (applying /\ succeeded /\ s = cmd.sid /\ r = conflict.root)
        /\ (applying /\ succeeded) =>
               handledConflictsBySession' =
                   [handledConflictsBySession EXCEPT ![cmd.sid][conflict.root] =
                       [direction |-> cmd.direction,
                        signature |-> buildConflictSignature(conflict)]]
        /\ (applying /\ ~succeeded) =>
               handledConflictsBySession' = handledConflictsBySession

\* C5: a handled record is written exactly by a step in which applying the
\* direction to a conflict succeeded, for that session and root, with the
\* chosen direction and the conflict's signature; a failed apply leaves the
\* records as they were.
RecordIffApplied == [][RecordStep]_vars

\* a single accept succeeded and its record is in the map
RecordWitness ==
    /\ cmd.op = "accept"
    /\ cmd.successCount = 1
    /\ handledConflictsBySession[cmd.sid][cmd.pending[1].root]
         = [direction |-> cmd.direction,
            signature |-> buildConflictSignature(cmd.pending[1])]

\* C6: once the terminate or reset a command issued has succeeded and the
\* command has moved on to its final refresh, the session has no handled
\* record.
NoRecordAfterTerminateOrReset ==
    /\ (cmd.op \in {"terminate", "reset"} /\ cmd.pc \in RefreshPcs) =>
           handledConflictsBySession[cmd.sid] = NoRecords
    /\ (cmd.op = "edit" /\ cmd.pc \in RefreshPcs \cup {"create"}) =>
           handledConflictsBySession[cmd.sid] = NoRecords
    /\ (cmd.op = "acceptAll" /\ cmd.pc \in RefreshPcs /\ cmd.resetOk) =>
           handledConflictsBySession[cmd.sid] = NoRecords

\* C7: in a quiescent state every handled record has a conflict of equal
\* signature at its root in the retained snapshot.
RecordsMatchSnapshot ==
    Quiescent =>
        \A s \in Sessions, r \in Roots :
            handledConflictsBySession[s][r] # NoRecord =>
                /\ sessions[s].present
                /\ sessions[s].conflicts[r] # NoConflict
                /\ buildConflictSignature(sessions[s].conflicts[r])
                     = handledConflictsBySession[s][r].signature

\* C9: with a container as remote endpoint no accept issues a copy or a
\* delete, none succeeds, no record is written, a batch fails on every item
\* it attempts, reset and flush are never invoked, and the message of an
\* accept that attempted something is a failure.
ContainerNeverApplied ==
    remoteProtocol = "docker" =>
        /\ cmd.touched = <<>>
        /\ cmd.successCount = 0
        /\ cmd.failed = cmd.attempted
        /\ cmd.resetCalls = 0 /\ cmd.flushCalls = 0
        /\ \A s \in Sessions : handledConflictsBySession[s] = NoRecords
        /\ report.note \notin {"accepted", "no-pending", "reset-flush-completed",
                               "reset-flush-failed"}
        /\ report.note = "failed-items" => report.kind = "warning"
        /\ report.note = "failed-to-accept" => report.kind = "error"

\* a batch of two on a container session has failed on both items
ContainerBatchWitness ==
    /\ remoteProtocol = "docker"
    /\ cmd.op = "acceptAll"
    /\ cmd.pc \in RefreshPcs
    /\ Len(cmd.failed) = 2

----------------------------------------------------------------------------
(* The outcome of a batch whose convergence step fails *)

\* the step in which resetSession or flushSession of the batch throws
ConvergenceFailedStep ==
    /\ cmd.op = "acceptAll"
    /\ cmd.pc \in {"reset", "flush"}
    /\ cmd'.note = "reset-flush-failed"

\* every conflict the batch applied has its record, with the batch's direction
BatchRecordsIn(handled) ==
    \A i \in DOMAIN cmd.pending :
        handled[cmd.sid][cmd.pending[i].root] =
            [direction |-> cmd.direction,
             signature |-> buildConflictSignature(cmd.pending[i])]

ConvergenceFailureKeeps ==
    /\ cmd.failed = <<>>
    /\ cmd.successCount = Len(cmd.pending)
    /\ ~cmd'.converged
    /\ handledConflictsBySession' = handledConflictsBySession
    /\ BatchRecordsIn(handledConflictsBySession')

\* the step in which the batch shows its last message
BatchReportStep == cmd.op = "acceptAll" /\ cmd.pc \in RefreshPcs /\ cmd' = IdleCmd

BatchReportDistinct ==
    /\ cmd.note = "reset-flush-failed" =>
           /\ report'.kind = "info"
           /\ report'.note = "reset-flush-failed"
           /\ ~cmd.converged
           /\ cmd.failed = <<>>
    /\ report'.note = "failed-items" => report'.kind = "warning" /\ cmd.failed # <<>>
    /\ cmd.converged <=> report'.note = "reset-flush-completed"

\* a step of the batch itself, the pruning of its closing refresh apart,
\* that leaves the session without records
BatchClearsStep ==
    /\ cmd.op = "acceptAll"
    /\ cmd.pc \notin RefreshPcs
    /\ handledConflictsBySession[cmd.sid] # NoRecords
    /\ handledConflictsBySession'[cmd.sid] = NoRecords

AfterResetAndFlush == cmd.pc = "flush" /\ cmd.resetOk /\ cmd'.converged

FetchedWithoutConflicts == cmd.pc = "get" /\ cmd'.note = "no-conflicts"

----------------------------------------------------------------------------
(* The counts of a batch *)

\* the numbers the messages of the batch print
ReportedCounts(c) ==
    [total |-> Len(c.conflicts), excluded |-> c.excludedCount,
     attempted |-> Len(c.pending), succeeded |-> c.successCount,
     failed |-> Len(c.failed)]

\* the conflicts the engine holds for the session of the command
EngineConflictCount ==
    Cardinality({r \in Roots : engine[cmd.sid].conflicts[r] # NoConflict})

CountsInBatch ==
    /\ (cmd.op = "acceptAll" /\ cmd.pc = "get" /\ engine[cmd.sid].alive) =>
           \A conflicts \in ConflictLists(engine[cmd.sid].conflicts) :
               LET exclusion == splitHandledConflicts(handledConflictsBySession,
                                                      cmd.sid, conflicts)
               IN  Len(conflicts) = exclusion.excludedCount + Len(exclusion.pending)
    /\ (cmd.op = "acceptAll" /\ cmd.pc # "get") =>
           /\ ReportedCounts(cmd).total
                = ReportedCounts(cmd).excluded + ReportedCounts(cmd).attempted
           /\ Len(cmd.attempted)
                = ReportedCounts(cmd).succeeded + ReportedCounts(cmd).failed
    /\ (cmd.op = "acceptAll" /\ cmd.pc \in RefreshPcs \cup {"reset", "flush"}) =>
           ReportedCounts(cmd).attempted
             = ReportedCounts(cmd).succeeded + ReportedCounts(cmd).failed

CountsStep ==
    /\ (cmd.op = "acceptAll" /\ cmd.pc = "get" /\ cmd'.op = "acceptAll"
          /\ cmd'.pc # "get") =>
           ReportedCounts(cmd').total = EngineConflictCount
    /\ (cmd.op = "acceptAll" /\ cmd.pc # "get" /\ cmd' # IdleCmd) =>
           /\ ReportedCounts(cmd').total = ReportedCounts(cmd).total
           /\ ReportedCounts(cmd').excluded = ReportedCounts(cmd).excluded
           /\ ReportedCounts(cmd').attempted = ReportedCounts(cmd).attempted

\* C27: in every message of an accept-all, total is excluded plus attempted,
\* attempted is succeeded plus failed, and total is the number of conflicts
\* the session had when the batch fetched it.
ReportCountsConsistent == []CountsInBatch /\ [][CountsStep]_vars

\* a batch over two conflicts has ended: one excluded, one attempted and failed
CountsWitness ==
    /\ cmd.op = "acceptAll"
    /\ cmd.pc \in RefreshPcs
    /\ ReportedCounts(cmd) = [total |-> 2, excluded |-> 1, attempted |-> 1,
                              succeeded |-> 0, failed |-> 1]

----------------------------------------------------------------------------
(* Direction and the handled records *)

\* the session has a record of the other direction for the conflict the
\* engine holds at r, with the signature of that conflict
HandledOtherWay(s, r, direction) ==
    /\ engine[s].conflicts[r] # NoConflict
    /\ handledConflictsBySession[s][r] # NoRecord
    /\ handledConflictsBySession[s][r].direction # direction
    /\ handledConflictsBySession[s][r].signature
         = buildConflictSignature(engine[s].conflicts[r])

\* the batch has fetched its session and split the conflicts
BatchSplitStep ==
    /\ cmd.op = "acceptAll" /\ cmd.pc = "get"
    /\ cmd'.op = "acceptAll" /\ cmd'.pc # "get"

\* the single-item accept has fetched its session and found the conflict
AcceptFoundStep ==
    /\ cmd.op = "accept" /\ cmd.pc = "get"
    /\ cmd'.op = "accept" /\ cmd'.pc # "get"
    /\ cmd'.note # "already-resolved"

DirectionStep ==
    /\ BatchSplitStep =>
           \A r \in Roots :
               HandledOtherWay(cmd.sid, r, cmd.direction) =>
                   \A i \in DOMAIN cmd'.pending : cmd'.pending[i].root # r
    /\ AcceptFoundStep =>
           /\ cmd'.pc = "apply"
           /\ Len(cmd'.pending) = 1
           /\ cmd'.pending[1] = findConflictInSession(cmd'.conflicts, cmd.item)

\* C28: the batch leaves out a conflict whose unchanged signature has a
\* record of the other direction, and a single-item accept goes on to apply
\* the conflict it found whatever records the session has.
ExclusionIgnoresDirection == [][DirectionStep]_vars

\* a batch of the direction remote has excluded a conflict handled as local
ExcludedOtherDirectionWitness ==
    /\ cmd.op = "acceptAll"
    /\ cmd.direction = "remote"
    /\ cmd.pc = "confirm"
    /\ cmd.excludedCount = 1
    /\ \E r \in Roots :
         /\ HandledOtherWay(cmd.sid, r, "remote")
         /\ \A i \in DOMAIN cmd.pending : cmd.pending[i].root # r

\* a single-item accept is about to apply a conflict that has a record
AcceptDespiteRecord ==
    /\ cmd.op = "accept"
    /\ cmd.pc = "apply"
    /\ isHandled(handledConflictsBySession[cmd.sid][cmd.pending[1].root],
                 cmd.pending[1])

----------------------------------------------------------------------------
(* What a list call returns *)

\* a listSessions call returns the empty list without a request of its own
ListSkippedStep ==
    \/ pollPc = "dup" /\ pollPc' = "idle"
    \/ cmd.pc = "rf_dup" /\ cmd' = IdleCmd

\* a listSessions call returns what its own request printed
ListPrintedStep ==
    \/ pollPc = "list" /\ pollPc' = "idle" /\ lastError' # "error"
    \/ cmd.pc = "rf_list" /\ cmd' = IdleCmd /\ lastError' # "error"

\* C34: a list call that returns normally returns the sessions the engine
\* holds while the call runs; it returns the empty list only when the engine
\* holds no session.
ListReturnsEngineSessions ==
    [][/\ ListSkippedStep => \A s \in Sessions : ~engine[s].alive
       /\ ListPrintedStep => sessions' = LoadResult(EngineList)]_vars

\* a call that made its own request returns the sessions of the engine
OwnRequestReturnsEngineSessions ==
    [][ListPrintedStep => sessions' = LoadResult(EngineList)]_vars

----------------------------------------------------------------------------
(* The single-item accept and the live conflict *)

\* the conflict the engine holds at the root of the selected item
LiveConflict == engine[cmd.sid].conflicts[cmd.item.root]

\* acceptConflict has fetched the session
AcceptFetchStep == cmd.op = "accept" /\ cmd.pc = "get" /\ cmd' # cmd

\* acceptConflict has applied the direction, or failed to
AcceptApplyStep == cmd.op = "accept" /\ cmd.pc = "apply" /\ cmd' # cmd

LiveConflictStep ==
    /\ AcceptFetchStep =>
           /\ handledConflictsBySession' = handledConflictsBySession
           /\ cmd'.pc = "apply" =>
                  LiveConflict # NoConflict /\ cmd'.pending = <<LiveConflict>>
           /\ cmd'.note = "already-resolved" =>
                  /\ LiveConflict = NoConflict
                  /\ cmd'.attempted = <<>> /\ cmd'.touched = <<>>
    /\ AcceptApplyStep =>
           /\ cmd.pending[1].root = cmd.item.root
           /\ handledConflictsBySession' # handledConflictsBySession =>
                  handledConflictsBySession' =
                      [handledConflictsBySession EXCEPT ![cmd.sid][cmd.item.root] =
                          [direction |-> cmd.direction,
                           signature |-> buildConflictSignature(cmd.pending[1])]]

\* C35: a single-item accept that fetched a session without a conflict at
\* the item's root applies nothing and writes no record; one that fetched a
\* conflict at that root applies the direction to that conflict, and the
\* record holds its signature and not the signature of the selected item.
AcceptActsOnLiveConflict == [][LiveConflictStep]_vars

\* an accept has written the record of a conflict whose signature is not
\* the signature of the item that was selected
AcceptedChangedConflictWitness ==
    /\ cmd.op = "accept"
    /\ cmd.pc \in RefreshPcs
    /\ cmd.note = "accepted"
    /\ buildConflictSignature(cmd.pending[1]) # buildConflictSignature(cmd.item)
    /\ handledConflictsBySession[cmd.sid][cmd.item.root].signature
         = buildConflictSignature(cmd.pending[1])

----------------------------------------------------------------------------
(* The in-flight flag of loadSessions *)

\* the loadSessions calls that have passed the flag and not yet returned
LoadsInFlight ==
    (IF pollPc # "idle" THEN 1 ELSE 0)
    + (IF cmd.pc \in {"rf_list", "rf_dup"} THEN 1 ELSE 0)

\* the list requests of the store that the engine has not yet answered
StoreRequestsInFlight ==
    (IF pollPc = "list" THEN 1 ELSE 0) + (IF cmd.pc = "rf_list" THEN 1 ELSE 0)

\* a loadSessions call finds the flag set and returns
LoadSkippedStep == cmd.pc # "rf_skip" /\ cmd'.pc = "rf_skip"

OneLoadStep ==
    LoadSkippedStep =>
        /\ LoadsInFlight = 1
        /\ sessions' = sessions
        /\ runningCommands' = runningCommands
        /\ isLoading' /\ lastError' = lastError
        /\ pollPc' = pollPc

OneLoadState ==
    /\ LoadsInFlight <= 1
    /\ StoreRequestsInFlight <= 1
    /\ isLoading <=> LoadsInFlight = 1
    /\ StoreRequestsInFlight = 1 => "list" \in runningCommands

\* C36: at most one load, and so at most one list request of the store, is
\* in flight; a loadSessions call made during a load issues no request and
\* leaves the snapshot alone; the flag is set exactly while a load is in
\* flight, after a load that succeeded as after one that failed.
OneLoadInFlight == []OneLoadState /\ [][OneLoadStep]_vars

\* a load was refused while the timer's load was waiting for its list
LoadRefusedWitness ==
    /\ cmd.pc = "rf_skip"
    /\ pollPc = "list"
    /\ isLoading

\* a failed load has ended and the flag is down
FlagDownAfterFailure == lastError = "error" /\ ~isLoading /\ LoadsInFlight = 0

----------------------------------------------------------------------------
(* A load that succeeds after a load that failed, checked under SpecLoad *)

\* the load before this one had failed, and its error was announced
AfterFailedLoad == loaded.previous = "error"

\* C37: a load that succeeds after a failed load notifies the listeners,
\* also when the list it received is no change of the retained snapshot.
SuccessAfterFailureNotifies ==
    [][LoadedStep /\ AfterFailedLoad => loaded'.fired]_vars

\* a load that succeeds after a failed load notifies the listeners when
\* the list it received is a change of the retained snapshot
ChangedSuccessAfterFailureNotifies ==
    [][LoadedStep /\ AfterFailedLoad /\ loaded'.hasChanges => loaded'.fired]_vars

\* the error of the failed load is cleared, the list is unchanged and the
\* listeners have heard nothing since the error
ErrorLeftOnDisplay ==
    /\ loaded.outcome = "ok"
    /\ loaded.previous = "error"
    /\ ~loaded.fired
    /\ provider.lastError = "null"
    /\ provider.sessions # <<>>

====
